---- MODULE Spec2Model ----
(***************************************************************************)
(* Verification model of the bank statement processor:                     *)
(*   multi_format_processor.py  (format registry / dispatcher, batch run)  *)
(*   base_processor.py          (merchant categorisation, direction)       *)
(*   dbs_processor.py           (DBS line parser and classifier)           *)
(*   ocbc_processor_v2.py       (OCBC line parser and classifier)          *)
(*   ocbc_processor.py          (legacy OCBC direction policy)             *)
(*   app.py                     (batch request handler)                    *)
(*                                                                         *)
(* Strings.  A Python str is modelled as a sequence of lexemes.  A lexeme  *)
(* is a fixed block of characters written as a TLA+ string: a run of       *)
(* digits ("580"), a date tail ("-Sep-22"), a decimal tail (".00"), a      *)
(* thousands group (",000"), one space (" "), or a word ("TRANSFER").      *)
(* Substring search, split, strip, upper/lower and the regular expressions *)
(* of the source are transcribed over lexemes; Len of a lexeme is its      *)
(* number of characters.                                                   *)
(***************************************************************************)
EXTENDS Integers, Sequences, FiniteSets, TLC

VARIABLES
    description,      \* input of the classifier operations (a str)
    amount,           \* captured amount token handed to the classifier (a str)
    merchant_config,  \* in-memory taxonomy: sequence of <<category, keywords>>
    text,             \* extracted document text, as its sequence of lines
    data_dir,         \* the data directory: whether it exists, and its listing
    op,               \* the operation that produced out ("init" before any)
    arg,              \* the argument that operation was called with
    calls,            \* the process_file / extract_transactions calls it made, in order
    out,              \* value returned by that operation
    self,             \* class of the processor the taxonomy operations are called on
    config_file,      \* the file merchant_config.txt: whether it exists, and its lines
    writer            \* the open(..., 'w') of an update_merchant_config in progress

vars == <<description, amount, merchant_config, text, data_dir, op, arg, calls, out,
          self, config_file, writer>>

\* the processor's class, the configuration store and its writer
configVars == <<self, config_file, writer>>

-----------------------------------------------------------------------------
(* Bounds of the model *)

MaxLines == 2     \* lines of a document text drawn in InitText
MaxFiles == 2     \* length of a batch request's selected_files
MaxDocs == 2      \* files in the data directory

-----------------------------------------------------------------------------
(* Lexemes *)

SP == " "

\* runs of digits; a run of more than three digits is written as its first three
\* digits followed by the rest ("58001" is <<"580", "01">>)
DigitLex == {"0", "1", "01", "02", "03", "45", "65", "213", "273", "540", "580"}
DateTailLex == {"-Sep-22"}
DecimalLex == {".00", ".14", ".38", ".92"}
GroupLex == {",000"}
ZeroLex == {"0", ".00", ",000"}

\* the words of the model: <<lower-case, capitalised, upper-case>>
Words ==
    { <<"ocbc", "Ocbc", "OCBC">>, <<"bank", "Bank", "BANK">>, <<"dbs", "Dbs", "DBS">>,
      <<"ltd", "Ltd", "LTD">>, <<"chulia", "Chulia", "CHULIA">>,
      <<"street", "Street", "STREET">>, <<"www.dbs.com", "www.dbs.com", "WWW.DBS.COM">>,
      <<"business", "Business", "BUSINESS">>, <<"growth", "Growth", "GROWTH">>,
      <<"account", "Account", "ACCOUNT">>, <<"payment", "Payment", "PAYMENT">>,
      <<"transfer", "Transfer", "TRANSFER">>, <<"othr", "Othr", "OTHR">>,
      <<"fast", "Fast", "FAST">>, <<"giro", "Giro", "GIRO">>, <<"ibg", "Ibg", "IBG">>,
      <<"cash", "Cash", "CASH">>, <<"rebate", "Rebate", "REBATE">>,
      <<"transaction", "Transaction", "TRANSACTION">>, <<"debit", "Debit", "DEBIT">>,
      <<"purchase", "Purchase", "PURCHASE">>, <<"charges", "Charges", "CHARGES">>,
      <<"service", "Service", "SERVICE">>, <<"charge", "Charge", "CHARGE">>,
      <<"remittance", "Remittance", "REMITTANCE">>, <<"of", "Of", "OF">>,
      <<"funds", "Funds", "FUNDS">>, <<"fund", "Fund", "FUND">>, <<"rtf", "Rtf", "RTF">>,
      <<"amazon", "Amazon", "AMAZON">>, <<"amzn", "Amzn", "AMZN">>,
      <<"hero", "Hero", "HERO">>, <<"foodpanda", "Foodpanda", "FOODPANDA">>,
      <<"delivery", "Delivery", "DELIVERY">>, <<"misc", "Misc", "MISC">>,
      <<"ref", "Ref", "REF">>, <<"jun", "Jun", "JUN">>, <<"sgd", "Sgd", "SGD">>,
      <<"allw", "Allw", "ALLW">>, <<"bexp", "Bexp", "BEXP">>,
      <<"balance", "Balance", "BALANCE">>, <<"b/f", "B/f", "B/F">>,
      <<"brought", "Brought", "BROUGHT">>, <<"forward", "Forward", "FORWARD">>,
      <<"x", "x", "X">>, <<"-sep-22", "-Sep-22", "-SEP-22">>,
      <<"oversea-chinese", "Oversea-Chinese", "OVERSEA-CHINESE">>,
      <<"banking", "Banking", "BANKING">>, <<"corporation", "Corporation", "CORPORATION">>,
      <<"limited", "Limited", "LIMITED">>, <<"centre", "Centre", "CENTRE">>,
      <<"branch", "Branch", "BRANCH">>, <<"marina", "Marina", "MARINA">>,
      <<"bay", "Bay", "BAY">>, <<"financial", "Financial", "FINANCIAL">>,
      <<"corporate", "Corporate", "CORPORATE">>, <<"current", "Current", "CURRENT">>,
      <<".pdf", ".Pdf", ".PDF">> }

\* every case variant of a word with its lower-case and upper-case form
CaseTable == UNION { {<<w[1], w[1], w[3]>>, <<w[2], w[1], w[3]>>, <<w[3], w[1], w[3]>>} : w \in Words }

\* str.upper() and str.lower() on one lexeme: a lexeme with no row (digits, punctuation)
\* is unchanged
UpperMap == [l \in {t[1] : t \in CaseTable} |-> (CHOOSE t \in CaseTable : t[1] = l)[3]]
LowerMap == [l \in {t[1] : t \in CaseTable} |-> (CHOOSE t \in CaseTable : t[1] = l)[2]]

UpperOf(l) == IF l \in DOMAIN UpperMap THEN UpperMap[l] ELSE l

LowerOf(l) == IF l \in DOMAIN LowerMap THEN LowerMap[l] ELSE l

\* lexemes that begin with at least three capital letters: [A-Z]{3,4}
UpperWordLex == {t[3] : t \in {u \in CaseTable : Len(u[3]) >= 3 /\ u[3] \notin {"-SEP-22", "WWW.DBS.COM"}}}

-----------------------------------------------------------------------------
(* Python str operations over lexeme sequences *)

upper(s) == [i \in DOMAIN s |-> UpperOf(s[i])]
lower(s) == [i \in DOMAIN s |-> LowerOf(s[i])]

\* k in s
Contains(s, k) == \E i \in 0..(Len(s) - Len(k)) : SubSeq(s, i + 1, i + Len(k)) = k

\* len(s), in characters
RECURSIVE CharLen(_)
CharLen(s) == IF s = <<>> THEN 0 ELSE Len(Head(s)) + CharLen(Tail(s))

RECURSIVE LStrip(_)
LStrip(s) == IF s # <<>> /\ Head(s) = SP THEN LStrip(Tail(s)) ELSE s

RECURSIVE RStrip(_)
RStrip(s) == IF s # <<>> /\ s[Len(s)] = SP THEN RStrip(SubSeq(s, 1, Len(s) - 1)) ELSE s

\* s.strip()
strip(s) == RStrip(LStrip(s))

\* index of the first space of s, Len(s) + 1 when it has none
FirstSP(s) ==
    IF \E i \in 1..Len(s) : s[i] = SP
    THEN CHOOSE i \in 1..Len(s) : s[i] = SP /\ \A j \in 1..(i - 1) : s[j] # SP
    ELSE Len(s) + 1

\* s.split(): the whitespace-separated tokens
RECURSIVE split(_)
split(s) ==
    LET t == LStrip(s) IN
    IF t = <<>> THEN <<>>
    ELSE <<SubSeq(t, 1, FirstSP(t) - 1)>> \o split(SubSeq(t, FirstSP(t), Len(t)))

\* sep.join(parts)
RECURSIVE join(_, _)
join(parts, sep) ==
    IF parts = <<>> THEN <<>>
    ELSE IF Len(parts) = 1 THEN parts[1]
    ELSE parts[1] \o sep \o join(Tail(parts), sep)

\* index of the first run of two or more spaces of s, Len(s) + 1 when it has none
FirstGap(s) ==
    IF \E i \in 1..(Len(s) - 1) : s[i] = SP /\ s[i + 1] = SP
    THEN CHOOSE i \in 1..(Len(s) - 1) :
            /\ s[i] = SP /\ s[i + 1] = SP
            /\ \A j \in 1..(i - 1) : ~(s[j] = SP /\ s[j + 1] = SP)
    ELSE Len(s) + 1

\* re.split(r'\s{2,}', s) for a stripped s
RECURSIVE re_split_gaps(_)
re_split_gaps(s) ==
    IF FirstGap(s) > Len(s) THEN <<s>>
    ELSE <<SubSeq(s, 1, FirstGap(s) - 1)>>
            \o re_split_gaps(LStrip(SubSeq(s, FirstGap(s), Len(s))))

\* the words of ws separated by single spaces
Phrase(ws) == join([i \in DOMAIN ws |-> <<ws[i]>>], <<SP>>)

\* float(s.replace(',', '')) succeeds
FloatParses(s) ==
    /\ s # <<>>
    /\ \A i \in DOMAIN s : s[i] \in DigitLex \cup GroupLex \cup DecimalLex
    /\ Cardinality({i \in DOMAIN s : s[i] \in DecimalLex}) <= 1

\* float(s.replace(',', '')) > 0, for a string that parses
FloatPositive(s) == \E i \in DOMAIN s : s[i] \notin ZeroLex

-----------------------------------------------------------------------------
(* Transaction records are Python dicts: functions from key to value.      *)

\* t[k] = v, adding the key when the dict has none
Put(t, k, v) == [x \in DOMAIN t \cup {k} |-> IF x = k THEN v ELSE t[x]]

\* t.get(k, default)
Get(t, k, default) == IF k \in DOMAIN t THEN t[k] ELSE default

\* any(keyword in d for keyword in keywords): the loops that return on the first hit
AnyKeywordIn(keywords, d) == \E i \in DOMAIN keywords : Contains(d, keywords[i])

ValueError == "ValueError"

-----------------------------------------------------------------------------
(* Classifier: direction *)

OCBC_deposit_keywords ==
    << <<"PAYMENT", SP, "/", "TRANSFER", SP, "OTHR">>,
       Phrase(<<"GIRO", "PAYMENT">>),
       Phrase(<<"FAST", "TRANSFER", "OTHR">>),
       <<"TRANSFER">>,
       Phrase(<<"CASH", "REBATE">>),
       <<"ALLW">>,
       <<"BEXP">> >>

OCBC_withdrawal_keywords ==
    << Phrase(<<"DEBIT", "PURCHASE">>),
       <<"CHARGES">>,
       Phrase(<<"CCY", "CONVERSION", "FEE">>),
       Phrase(<<"FAST", "TRANSFER", "OTHR">>) >>

DBS_deposit_keywords ==
    << Phrase(<<"REMITTANCE", "TRANSFER", "OF", "FUNDS", "RTF">>),
       Phrase(<<"IBG", "GIRO">>),
       <<"TRANSFER">>,
       Phrase(<<"CASH", "TRANSACTION">>) >>

DBS_withdrawal_keywords ==
    << Phrase(<<"FAST", "PAYMENT">>),
       Phrase(<<"GIRO", "PAYMENT">>),
       Phrase(<<"SERVICE", "CHARGE">>),
       Phrase(<<"INTERBANK", "GIRO", "IBG">>) >>

\* the mutant tests the withdrawal list before the deposit list
Mutant_assign_ocbc_transaction_type(transaction) ==
    LET d == upper(Get(transaction, "description", <<>>))
        w == Get(transaction, "withdrawal", <<>>)
        amt == IF w # <<>> THEN w ELSE Get(transaction, "deposit", <<>>)
        cleared == Put(Put(transaction, "withdrawal", <<>>), "deposit", <<>>)
    IN  IF AnyKeywordIn(OCBC_withdrawal_keywords, d)
        THEN Put(Put(cleared, "withdrawal", amt), "transaction_type", "Withdrawal")
        ELSE IF AnyKeywordIn(OCBC_deposit_keywords, d)
        THEN Put(Put(cleared, "deposit", amt), "transaction_type", "Deposit")
        ELSE Put(Put(cleared, "withdrawal", amt), "transaction_type", "Withdrawal")

\* OCBCBankProcessor._assign_ocbc_transaction_type: the dict after the call
OCBC_assign_ocbc_transaction_type(transaction) ==
    LET d == upper(Get(transaction, "description", <<>>))
        w == Get(transaction, "withdrawal", <<>>)
        amt == IF w # <<>> THEN w ELSE Get(transaction, "deposit", <<>>)
        cleared == Put(Put(transaction, "withdrawal", <<>>), "deposit", <<>>)
    IN  IF AnyKeywordIn(OCBC_deposit_keywords, d)
        THEN Put(Put(cleared, "deposit", amt), "transaction_type", "Deposit")
        ELSE IF AnyKeywordIn(OCBC_withdrawal_keywords, d)
        THEN Put(Put(cleared, "withdrawal", amt), "transaction_type", "Withdrawal")
        ELSE Put(Put(cleared, "withdrawal", amt), "transaction_type", "Withdrawal")

\* DBSBankProcessor._assign_dbs_transaction_type: the dict after the call
DBS_assign_dbs_transaction_type(transaction) ==
    LET d == upper(Get(transaction, "transaction_details", <<>>))
        amt == Get(transaction, "withdrawal", <<>>)
        cleared == Put(Put(transaction, "withdrawal", <<>>), "deposit", <<>>)
    IN  IF AnyKeywordIn(DBS_deposit_keywords, d)
        THEN Put(Put(cleared, "deposit", amt), "transaction_type", "Deposit")
        ELSE IF AnyKeywordIn(DBS_withdrawal_keywords, d)
        THEN Put(Put(cleared, "withdrawal", amt), "transaction_type", "Withdrawal")
        ELSE Put(Put(cleared, "withdrawal", amt), "transaction_type", "Withdrawal")

\* legacy OCBCBankProcessor.extract_transactions: the direction decision of one match
Legacy_deposit_keywords ==
    << Phrase(<<"PAYMENT">>) \o <<"/", "TRANSFER">>,
       Phrase(<<"IBG", "GIRO">>),
       <<"TRANSFER">>,
       Phrase(<<"FUND", "TRANSFER">>),
       Phrase(<<"CASH", "REBATE">>) >>

Legacy_withdrawal_keywords ==
    << Phrase(<<"DEBIT", "PURCHASE">>),
       Phrase(<<"GIRO", "PAYMENT">>),
       Phrase(<<"FAST", "TRANSFER">>),
       <<"CHARGES">>,
       Phrase(<<"CCY", "CONVERSION", "FEE">>),
       Phrase(<<"FAST", "PAYMENT">>),
       Phrase(<<"FUND", "TRANSFER">>) >>

Legacy_override_keywords ==
    << Phrase(<<"PAYMENT">>) \o <<"/", "TRANSFER">>,
       Phrase(<<"IBG", "GIRO">>),
       Phrase(<<"CASH", "REBATE">>) >>

Legacy_transaction_type(desc) ==
    LET d == upper(desc)
        is_deposit0 == AnyKeywordIn(Legacy_deposit_keywords, d)
        is_withdrawal0 == AnyKeywordIn(Legacy_withdrawal_keywords, d)
        is_deposit ==
            IF is_deposit0 /\ is_withdrawal0
            THEN AnyKeywordIn(Legacy_override_keywords, d)
            ELSE is_deposit0
    IN  IF is_deposit THEN "DEPOSIT" ELSE "WITHDRAWAL"

Base_withdrawal_keywords ==
    << Phrase(<<"debit", "purchase">>), Phrase(<<"giro", "payment">>),
       Phrase(<<"fast", "transfer">>), <<"charges">>,
       Phrase(<<"ccy", "conversion", "fee">>), Phrase(<<"fast", "payment">>),
       Phrase(<<"fund", "transfer">>), Phrase(<<"fast", "payment">>) >>

Base_deposit_keywords ==
    << <<"payment", "/", "transfer">>, Phrase(<<"ibg", "giro">>), <<"transfer">>,
       Phrase(<<"fund", "transfer">>), Phrase(<<"cash", "rebate">>), <<"transfer">>,
       Phrase(<<"remittance", "transfer", "of", "funds">>) >>

\* BaseBankProcessor.determine_transaction_type; ValueError when float() raises
determine_transaction_type(desc, withdrawal, deposit) ==
    LET d == lower(desc) IN
    IF AnyKeywordIn(Base_deposit_keywords, d) THEN "Deposit"
    ELSE IF AnyKeywordIn(Base_withdrawal_keywords, d) THEN "Withdrawal"
    ELSE IF withdrawal # <<>> /\ ~FloatParses(withdrawal) THEN ValueError
    ELSE IF withdrawal # <<>> /\ FloatPositive(withdrawal) THEN "Withdrawal"
    ELSE IF deposit # <<>> /\ ~FloatParses(deposit) THEN ValueError
    ELSE IF deposit # <<>> /\ FloatPositive(deposit) THEN "Deposit"
    ELSE "Mixed"

-----------------------------------------------------------------------------
(* Classifier: merchant category *)

\* a keyword of the list occurs in the lower-cased description
KeywordHit(keywords, description_lower) ==
    \E j \in DOMAIN keywords : Contains(description_lower, lower(keywords[j]))

\* the mutant lets the last matching category win
RECURSIVE Mutant_categorize_merchant(_, _)
Mutant_categorize_merchant(config, desc) ==
    IF config = <<>> THEN "Other"
    ELSE IF KeywordHit(config[Len(config)][2], lower(desc)) THEN config[Len(config)][1]
    ELSE Mutant_categorize_merchant(SubSeq(config, 1, Len(config) - 1), desc)

\* BaseBankProcessor.categorize_merchant over the dict config, in insertion order
RECURSIVE categorize_merchant(_, _)
categorize_merchant(config, desc) ==
    IF config = <<>> THEN "Other"
    ELSE IF KeywordHit(config[1][2], lower(desc)) THEN config[1][1]
    ELSE categorize_merchant(Tail(config), desc)

\* OCBCBankProcessor.__init__: merchant_categories['Other'] = [] after loading
OCBC_merchant_categories(config) ==
    IF \E i \in DOMAIN config : config[i][1] = "Other"
    THEN [i \in DOMAIN config |-> IF config[i][1] = "Other" THEN <<"Other", <<>>>> ELSE config[i]]
    ELSE Append(config, <<"Other", <<>>>>)

\* OCBCBankProcessor.categorize_merchant
OCBC_categorize_merchant(config, desc) ==
    IF desc = <<>> THEN "Other"
    ELSE categorize_merchant(OCBC_merchant_categories(config), desc)

-----------------------------------------------------------------------------
(* Taxonomies *)

HeroKeywords == << <<"hero">>, Phrase(<<"delivery", "hero">>), <<"foodpanda">> >>
AmazonKeywords == << <<"amazon">>, <<"amzn">> >>

\* the built-in default taxonomy of load_merchant_config
DefaultTaxonomy ==
    << <<"Adyen", << <<"adyen">>, Phrase(<<"adyen", "payment">>) >> >>,
       <<"MYR", << <<"myr">>, Phrase(<<"myr", "payment">>) >> >>,
       <<"Lalamove", << <<"lalamove">>, Phrase(<<"lala", "move">>) >> >>,
       <<"Amazon", AmazonKeywords>>,
       <<"Deliveroo", << <<"deliveroo">>, Phrase(<<"deliveroo", "payment">>) >> >>,
       <<"Gpay", << <<"gpay">>, Phrase(<<"google", "pay">>), Phrase(<<"gpay", "network">>) >> >>,
       <<"Hero", HeroKeywords>> >>

-----------------------------------------------------------------------------
(* Regular expressions of the line parsers, over lexemes *)

\* least index j >= i of s that holds no space, Len(s) + 1 when there is none
NextNonSP(s, i) ==
    IF \E j \in i..Len(s) : s[j] # SP
    THEN CHOOSE j \in i..Len(s) : s[j] # SP /\ \A k \in i..(j - 1) : s[k] = SP
    ELSE Len(s) + 1

\* lexemes whose last character is a digit
EndsWithDigit(x) == x \in DigitLex \cup DecimalLex \cup GroupLex \cup DateTailLex

\* \d{1,2}-[A-Za-z]{3}-\d{2} matches s from lexeme i on
DateAt(s, i) ==
    /\ i >= 1 /\ i + 1 <= Len(s)
    /\ s[i] \in DigitLex /\ Len(s[i]) <= 2
    /\ s[i + 1] \in DateTailLex

\* ^\d{1,3}(?:,\d{3})*(?:\.\d{2})?$ matches the whole of tok
AmountFull(tok) ==
    /\ tok # <<>>
    /\ tok[1] \in DigitLex
    /\ \A i \in 2..Len(tok) :
          \/ tok[i] \in GroupLex
          \/ i = Len(tok) /\ tok[i] \in DecimalLex

\* ^\d{1,3}(?:,\d{3})*(?:\.\d{2})? matches a prefix of s
AmountPrefix(s) == s # <<>> /\ s[1] \in DigitLex

\* index of the last lexeme of the greedy match of \d{1,3}(?:,\d{3})*(?:\.\d{2})? at i
RECURSIVE GroupsEnd(_, _)
GroupsEnd(s, i) == IF i + 1 <= Len(s) /\ s[i + 1] \in GroupLex THEN GroupsEnd(s, i + 1) ELSE i

AmountEnd(s, i) ==
    LET g == GroupsEnd(s, i) IN
    IF g + 1 <= Len(s) /\ s[g + 1] \in DecimalLex THEN g + 1 ELSE g

\* s.replace(pat, '') for a non-empty pat
RECURSIVE ReplaceAll(_, _)
ReplaceAll(s, pat) ==
    IF Len(s) < Len(pat) THEN s
    ELSE IF SubSeq(s, 1, Len(pat)) = pat
    THEN ReplaceAll(SubSeq(s, Len(pat) + 1, Len(s)), pat)
    ELSE <<s[1]>> \o ReplaceAll(Tail(s), pat)

\* DBS format 1: ^\d{1,2}-[A-Za-z]{3}-\d{2}\s+\d{1,3}(?:,\d{3})*(?:\.\d{2})?
DBS_format1(line) ==
    /\ DateAt(line, 1)
    /\ Len(line) >= 4 /\ line[3] = SP
    /\ NextNonSP(line, 3) <= Len(line)
    /\ line[NextNonSP(line, 3)] \in DigitLex

\* DBS format 2: ^\d{1,3}(?:,\d{3})*(?:\.\d{2})?\s+\d{1,2}-[A-Za-z]{3}-\d{2}
DBS_format2(line) ==
    /\ FirstSP(line) <= Len(line)
    /\ AmountFull(SubSeq(line, 1, FirstSP(line) - 1))
    /\ DateAt(line, NextNonSP(line, FirstSP(line)))

\* DBS format 3: \d{1,3}(?:,\d{3})*(?:\.\d{2})?\d{1,2}-[A-Za-z]{3}-\d{2} found anywhere:
\* a date whose day has two digits matches by itself (its first digit is the amount)
DBS_format3(line) ==
    \E i \in 1..(Len(line) - 1) :
        /\ line[i] \in DigitLex /\ line[i + 1] \in DateTailLex
        /\ \/ Len(line[i]) >= 2
           \/ i > 1 /\ EndsWithDigit(line[i - 1])

\* OCBC anchor: ^\d{1,2}\s+[A-Z]{3,4}
OCBC_date_start(line) ==
    /\ Len(line) >= 3
    /\ line[1] \in DigitLex /\ Len(line[1]) <= 2
    /\ line[2] = SP
    /\ NextNonSP(line, 2) <= Len(line)
    /\ line[NextNonSP(line, 2)] \in UpperWordLex

-----------------------------------------------------------------------------
(* clean_text *)

\* re.sub(r'\s+', ' ', text.strip())
normalize_whitespace(s) == join(split(s), <<SP>>)

BalanceBroughtForward == Phrase(<<"Balance", "Brought", "Forward">>)

\* DBSBankProcessor.clean_text
DBS_clean_text(s) ==
    IF lower(normalize_whitespace(s)) = Phrase(<<"balance", "b/f">>)
    THEN BalanceBroughtForward
    ELSE normalize_whitespace(s)

\* OCBCBankProcessor.clean_text
OCBC_clean_text(s) ==
    IF upper(normalize_whitespace(s)) = Phrase(<<"BALANCE", "B/F">>)
    THEN BalanceBroughtForward
    ELSE normalize_whitespace(s)

-----------------------------------------------------------------------------
(* DBS line parser *)

DBS_empty_transaction ==
    [transaction_date |-> <<>>, value_date |-> <<>>, transaction_details |-> <<>>,
     withdrawal |-> <<>>, deposit |-> <<>>, balance |-> <<>>]

\* a parser that takes the description of a date-first line from its second column on
Mutant_DBS_parse_fields(line) ==
    IF DBS_format1(line) /\ Len(split(line)) >= 3
    THEN [DBS_empty_transaction EXCEPT
             !.transaction_date = DBS_clean_text(split(line)[1]),
             !.withdrawal = split(line)[2],
             !.transaction_details = join(SubSeq(split(line), 2, Len(split(line))), <<SP>>),
             !.value_date = DBS_clean_text(split(line)[1])]
    ELSE DBS_empty_transaction

\* the fields set by the format branch taken, before clean-up and classification
DBS_parse_fields(line) ==
    LET parts == split(line) IN
    IF DBS_format1(line)
    THEN IF Len(parts) >= 3
         THEN [DBS_empty_transaction EXCEPT
                  !.transaction_date = DBS_clean_text(parts[1]),
                  !.withdrawal = parts[2],
                  !.transaction_details = join(SubSeq(parts, 3, Len(parts)), <<SP>>),
                  !.value_date = DBS_clean_text(parts[1])]
         ELSE DBS_empty_transaction
    ELSE IF DBS_format2(line)
    THEN IF Len(parts) >= 3
         THEN [DBS_empty_transaction EXCEPT
                  !.withdrawal = parts[1],
                  !.transaction_date = DBS_clean_text(parts[2]),
                  !.transaction_details = join(SubSeq(parts, 3, Len(parts)), <<SP>>),
                  !.value_date = DBS_clean_text(parts[2])]
         ELSE DBS_empty_transaction
    ELSE IF DBS_format3(line)
    THEN LET ai == CHOOSE i \in DOMAIN line :
                        line[i] \in DigitLex /\ \A k \in 1..(i - 1) : line[k] \notin DigitLex
             amt == SubSeq(line, ai, AmountEnd(line, ai))
             di == CHOOSE i \in DOMAIN line :
                        /\ line[i] \in DigitLex /\ i + 1 <= Len(line)
                        /\ line[i + 1] \in DateTailLex
                        /\ \A k \in 1..(i - 1) :
                              ~(line[k] \in DigitLex /\ line[k + 1] \in DateTailLex)
             date == SubSeq(line, di, di + 1)
         IN  [DBS_empty_transaction EXCEPT
                  !.withdrawal = amt,
                  !.transaction_date = DBS_clean_text(date),
                  !.transaction_details = strip(ReplaceAll(ReplaceAll(line, amt), date)),
                  !.value_date = DBS_clean_text(date)]
    ELSE DBS_empty_transaction

\* transaction['transaction_details'] = self.clean_text(transaction['transaction_details'])
DBS_clean_details(t) ==
    [t EXCEPT !.transaction_details = DBS_clean_text(t.transaction_details)]

\* DBSBankProcessor._parse_dbs_transaction_line
DBS_parse_dbs_transaction_line(line) ==
    DBS_assign_dbs_transaction_type(DBS_clean_details(DBS_parse_fields(line)))

\* DBSBankProcessor.extract_transactions: the scan that collects the anchor lines
DBS_is_transaction_line(raw) ==
    LET line == strip(raw) IN
    /\ line # <<>>
    /\ DBS_format1(line) \/ DBS_format2(line) \/ DBS_format3(line)

\* for i, line in enumerate(lines), from index lo on: the indices of the anchor lines,
\* in increasing order
RECURSIVE DBS_scan(_, _)
DBS_scan(lines, lo) ==
    IF lo > Len(lines) THEN <<>>
    ELSE (IF DBS_is_transaction_line(lines[lo]) THEN <<lo>> ELSE <<>>)
            \o DBS_scan(lines, lo + 1)

DBS_transaction_lines(lines) == DBS_scan(lines, 1)

\* DBSBankProcessor._is_description_continuation, its skip patterns: of the lines of the
\* model only ^Balance Brought Forward$ matches, case ignored. No method calls it.
DBS_skip_patterns(line) == upper(line) = upper(BalanceBroughtForward)

\* OCBCBankProcessor._is_description_continuation, its skip patterns: of the lines of the
\* model only ^BALANCE B/F$ matches, case ignored. No method calls it.
OCBC_skip_patterns(line) == upper(line) = Phrase(<<"BALANCE", "B/F">>)

\* the look-ahead loop: lines[k..last] absorbed into acc until the first break
RECURSIVE DBS_continuation(_, _, _, _)
DBS_continuation(lines, k, last, acc) ==
    IF k > last THEN acc
    ELSE LET next_line == strip(lines[k]) IN
         IF next_line = <<>> THEN DBS_continuation(lines, k + 1, last, acc)
         ELSE IF ~DateAt(next_line, 1) /\ ~AmountPrefix(next_line) /\ CharLen(next_line) > 3
         THEN DBS_continuation(lines, k + 1, last, Append(acc, next_line))
         ELSE acc

Min(a, b) == IF a < b THEN a ELSE b

\* number of lines after the anchor that the look-ahead may read: range(n + 1, n + 5)
LookAhead == 4

\* body of the per-line try block of DBSBankProcessor.extract_transactions for the
\* anchor at index i: the record appended, or the exception raised
\* the parsed anchor with its full description, merchant category and direction; the
\* exception when determine_transaction_type raises
DBS_finish(transaction, merchant_category, type) ==
    IF type = ValueError
    THEN [ok |-> FALSE, raised |-> ValueError]
    ELSE [ok |-> TRUE,
          value |-> Put(Put(transaction, "merchant_category", merchant_category),
                        "transaction_type", type)]

DBS_describe(config, transaction, full_description) ==
    DBS_finish([transaction EXCEPT !.transaction_details = full_description],
               categorize_merchant(config, full_description),
               determine_transaction_type(full_description,
                                          transaction.withdrawal, transaction.deposit))

\* a look-ahead that reads five lines past the anchor
Mutant_DBS_look_ahead(config, lines, i, transaction) ==
    DBS_describe(config, transaction,
                 strip(join(DBS_continuation(lines, i + 1, Min(i + LookAhead + 1, Len(lines)),
                                             <<transaction.transaction_details>>),
                            <<SP>>)))

DBS_look_ahead(config, lines, i, transaction) ==
    DBS_describe(config, transaction,
                 strip(join(DBS_continuation(lines, i + 1, Min(i + LookAhead, Len(lines)),
                                             <<transaction.transaction_details>>),
                            <<SP>>)))

DBS_process_line(config, lines, i) ==
    DBS_look_ahead(config, lines, i, DBS_parse_dbs_transaction_line(strip(lines[i])))

\* transactions.append(transaction) at the end of a try block: reached only when the
\* block raised nothing and did not continue
Appended(transactions, r) == IF r.ok THEN Append(transactions, r.value) ELSE transactions

\* the mutant lets the first exception end the loop
RECURSIVE Mutant_DBS_extract_loop(_, _, _, _)
Mutant_DBS_extract_loop(config, lines, todo, transactions) ==
    IF todo = <<>> THEN transactions
    ELSE LET r == DBS_process_line(config, lines, Head(todo)) IN
         IF r.ok
         THEN Mutant_DBS_extract_loop(config, lines, Tail(todo), Append(transactions, r.value))
         ELSE transactions

\* the for loop over transaction_lines with its try / except ... continue
RECURSIVE DBS_extract_loop(_, _, _, _)
DBS_extract_loop(config, lines, todo, transactions) ==
    IF todo = <<>> THEN transactions
    ELSE DBS_extract_loop(config, lines, Tail(todo),
                          Appended(transactions, DBS_process_line(config, lines, Head(todo))))

\* DBSBankProcessor.extract_transactions
DBS_extract_transactions(config, lines) ==
    DBS_extract_loop(config, lines, DBS_transaction_lines(lines), <<>>)

-----------------------------------------------------------------------------
(* OCBC line parser *)

OCBC_empty_transaction ==
    [transaction_date |-> <<>>, value_date |-> <<>>, description |-> <<>>, cheque |-> <<>>,
     withdrawal |-> <<>>, deposit |-> <<>>, balance |-> <<>>]

\* description += ' ' + piece, or description = piece when it is still empty
AddToDescription(desc, piece) == IF desc # <<>> THEN desc \o <<SP>> \o piece ELSE piece

\* OCBCBankProcessor._parse_ocbc_transaction_line, for a line with at least 3 parts
OCBC_parse_parts(parts) ==
    LET isAmount == AmountFull(parts[2])
        isBalance == AmountFull(parts[3])
        d1 == IF isAmount THEN <<>> ELSE parts[2]
        d2 == IF isBalance THEN d1 ELSE AddToDescription(d1, parts[3])
        d3 == IF Len(parts) >= 4
              THEN AddToDescription(d2, join(SubSeq(parts, 4, Len(parts)), <<SP>>))
              ELSE d2
    IN  [OCBC_empty_transaction EXCEPT
            !.transaction_date = OCBC_clean_text(parts[1]),
            !.withdrawal = IF isAmount THEN parts[2] ELSE <<>>,
            !.balance = IF isBalance THEN parts[3] ELSE <<>>,
            !.description = OCBC_clean_text(d3)]

\* OCBCBankProcessor.extract_transactions: the scan that collects the anchor lines
OCBC_is_transaction_line(raw) ==
    LET line == strip(raw) IN
    /\ line # <<>>
    /\ OCBC_date_start(line)
    /\ \E i \in DOMAIN line : EndsWithDigit(line[i])

\* for i, line in enumerate(lines), from index lo on: the indices of the anchor lines,
\* in increasing order
RECURSIVE OCBC_scan(_, _)
OCBC_scan(lines, lo) ==
    IF lo > Len(lines) THEN <<>>
    ELSE (IF OCBC_is_transaction_line(lines[lo]) THEN <<lo>> ELSE <<>>)
            \o OCBC_scan(lines, lo + 1)

OCBC_transaction_lines(lines) == OCBC_scan(lines, 1)

\* the look-ahead loop: lines[k..last] absorbed into acc until the first break
RECURSIVE OCBC_continuation(_, _, _, _)
OCBC_continuation(lines, k, last, acc) ==
    IF k > last THEN acc
    ELSE LET next_line == strip(lines[k]) IN
         IF next_line = <<>> THEN OCBC_continuation(lines, k + 1, last, acc)
         ELSE IF ~OCBC_date_start(next_line) /\ ~AmountPrefix(next_line)
                    /\ CharLen(next_line) > 3
         THEN OCBC_continuation(lines, k + 1, last, Append(acc, next_line))
         ELSE acc

\* body of the per-line try block of OCBCBankProcessor.extract_transactions for the
\* anchor at index i: the record appended, or nothing when the parser returns None
OCBC_describe(config, transaction, full_description) ==
    [ok |-> TRUE,
     value |-> OCBC_assign_ocbc_transaction_type(
                   Put([transaction EXCEPT !.description = full_description],
                       "merchant_category",
                       OCBC_categorize_merchant(config, full_description)))]

OCBC_look_ahead(config, lines, i, transaction) ==
    OCBC_describe(config, transaction,
                  strip(join(OCBC_continuation(lines, i + 1, Min(i + LookAhead, Len(lines)),
                                               <<transaction.description>>),
                             <<SP>>)))

OCBC_parsed(config, lines, i, parts) ==
    IF Len(parts) < 3
    THEN [ok |-> FALSE, raised |-> "None"]
    ELSE OCBC_look_ahead(config, lines, i, OCBC_parse_parts(parts))

OCBC_process_line(config, lines, i) ==
    OCBC_parsed(config, lines, i, re_split_gaps(strip(lines[i])))

\* the for loop over transaction_lines with its try / except ... continue
RECURSIVE OCBC_extract_loop(_, _, _, _)
OCBC_extract_loop(config, lines, todo, transactions) ==
    IF todo = <<>> THEN transactions
    ELSE OCBC_extract_loop(config, lines, Tail(todo),
                           Appended(transactions, OCBC_process_line(config, lines, Head(todo))))

\* OCBCBankProcessor.extract_transactions
OCBC_extract_transactions(config, lines) ==
    OCBC_extract_loop(config, lines, OCBC_transaction_lines(lines), <<>>)

-----------------------------------------------------------------------------
(* Format detection and the registry *)

ocbc_indicators ==
    << Phrase(<<"OCBC", "Bank">>),
       Phrase(<<"Oversea-Chinese", "Banking", "Corporation", "Limited">>),
       Phrase(<<"BUSINESS", "GROWTH", "ACCOUNT">>),
       Phrase(<<"OCBC", "Centre", "Branch">>),
       Phrase(<<"65", "Chulia", "Street">>) >>

dbs_indicators ==
    << Phrase(<<"DBS", "Bank", "Ltd">>),
       Phrase(<<"DBS", "Corporate", "Current", "Account">>),
       Phrase(<<"Marina", "Bay", "Financial", "Centre">>),
       <<"www.dbs.com">> >>

\* indicator.lower() in text.lower(), for some indicator: no indicator holds a line
\* break, so a hit lies within one line of the text
IndicatorIn(indicators, lines) ==
    \E k \in DOMAIN indicators : \E i \in DOMAIN lines :
        Contains(lower(lines[i]), lower(indicators[k]))

OCBC == "OCBC Bank"
DBS == "DBS Bank"
None == "None"

\* MultiFormatProcessor._register_processors: the registry, in registration order
processors == <<OCBC, DBS>>

\* processor.detect_format(text)
detect_format(processor, lines) ==
    IF processor = OCBC THEN IndicatorIn(ocbc_indicators, lines)
    ELSE IndicatorIn(dbs_indicators, lines)

\* the mutant walks the registry from its last entry
RECURSIVE Mutant_first_detecting(_, _)
Mutant_first_detecting(registry, lines) ==
    IF registry = <<>> THEN None
    ELSE IF detect_format(registry[Len(registry)], lines) THEN registry[Len(registry)]
    ELSE Mutant_first_detecting(SubSeq(registry, 1, Len(registry) - 1), lines)

\* the loop of detect_bank_format over a registry
RECURSIVE first_detecting(_, _)
first_detecting(registry, lines) ==
    IF registry = <<>> THEN None
    ELSE IF detect_format(Head(registry), lines) THEN Head(registry)
    ELSE first_detecting(Tail(registry), lines)

\* MultiFormatProcessor.detect_bank_format
detect_bank_format(lines) == first_detecting(processors, lines)

\* processor.extract_transactions(text)
extract_transactions(processor, config, lines) ==
    IF processor = OCBC THEN OCBC_extract_transactions(config, lines)
    ELSE DBS_extract_transactions(config, lines)

-----------------------------------------------------------------------------
(* The configuration store merchant_config.txt and the taxonomy operations.   *)
(* A dict is its sequence of <<key, value>> items in insertion order.  In    *)
(* this part a category is a str like any other: a sequence of lexemes, with *)
(* "=", "," and "#" lexemes of their own.                                    *)

\* key in d
HasKey(d, k) == \E i \in DOMAIN d : d[i][1] = k

\* d[k] = v: an existing key keeps its position, a new key goes last
SetItem(d, k, v) ==
    IF HasKey(d, k) THEN [i \in DOMAIN d |-> IF d[i][1] = k THEN <<k, v>> ELSE d[i]]
    ELSE Append(d, <<k, v>>)

\* del d[k]
DelItem(d, k) == SelectSeq(d, LAMBDA item : item[1] # k)

\* index of the first sep of s, Len(s) + 1 when it has none
RECURSIVE FirstOf(_, _)
FirstOf(s, sep) ==
    IF s = <<>> \/ Head(s) = sep THEN 1 ELSE 1 + FirstOf(Tail(s), sep)

\* s.split(sep) for a one-character sep: always at least one part
RECURSIVE split_on(_, _)
split_on(s, sep) ==
    IF FirstOf(s, sep) > Len(s) THEN <<s>>
    ELSE <<SubSeq(s, 1, FirstOf(s, sep) - 1)>>
            \o split_on(SubSeq(s, FirstOf(s, sep) + 1, Len(s)), sep)

\* [k.strip() for k in keywords.split(',')]
stripped_keywords(s) == [i \in DOMAIN split_on(s, ",") |-> strip(split_on(s, ",")[i])]

\* line.strip().startswith('#')
IsComment(line) == strip(line) # <<>> /\ Head(strip(line)) = "#"

\* not line.strip()
IsBlank(line) == strip(line) = <<>>

\* the built-in default taxonomy, its categories as strs
Default_merchant_config ==
    [i \in DOMAIN DefaultTaxonomy |-> << <<DefaultTaxonomy[i][1]>>, DefaultTaxonomy[i][2] >>]

\* the file merchant_config.txt does not exist
NoConfigFile == [exists |-> FALSE, lines |-> <<>>]

\* a file holding the lines given, each ended by a newline
ConfigFile(lines) == [exists |-> TRUE, lines |-> lines]

\* leading and trailing blank lines of a file: content.strip() removes them
RECURSIVE DropBlankHead(_)
DropBlankHead(lines) ==
    IF lines # <<>> /\ IsBlank(Head(lines)) THEN DropBlankHead(Tail(lines)) ELSE lines

RECURSIVE DropBlankTail(_)
DropBlankTail(lines) ==
    IF lines # <<>> /\ IsBlank(lines[Len(lines)])
    THEN DropBlankTail(SubSeq(lines, 1, Len(lines) - 1)) ELSE lines

\* f.read().strip().split('\n'): the lines of the stripped content; <<>> stands for
\* the empty content, which the loaders do not split
content_lines(lines) ==
    LET kept == DropBlankTail(DropBlankHead(lines)) IN
    [i \in DOMAIN kept |->
        IF i = 1 /\ i = Len(kept) THEN strip(kept[i])
        ELSE IF i = 1 THEN LStrip(kept[i])
        ELSE IF i = Len(kept) THEN RStrip(kept[i])
        ELSE kept[i]]

\* category, keywords = line.split('=', 1); config[category.strip()] = [k.strip() ...]
load_line(config, line) ==
    SetItem(config,
            strip(SubSeq(line, 1, FirstOf(line, "=") - 1)),
            stripped_keywords(SubSeq(line, FirstOf(line, "=") + 1, Len(line))))

\* '=' in line
HasEquals(line) == FirstOf(line, "=") <= Len(line)

\* BaseBankProcessor.load_merchant_config: which lines make a category
Base_loads(line) == ~(IsComment(line) \/ IsBlank(line)) /\ HasEquals(line)

\* MultiFormatProcessor.load_merchant_config: which lines make a category
Multi_loads(line) == HasEquals(line) /\ ~IsComment(line)

\* OCBCBankProcessor.load_merchant_config: which lines make a category
OCBC_loads(line) == HasEquals(line)

Multi == "MultiFormatProcessor"

\* the test the loader of the processor applies to a line
loads(processor, line) ==
    IF processor = Multi THEN Multi_loads(line)
    ELSE IF processor = OCBC THEN OCBC_loads(line)
    ELSE Base_loads(line)

\* for line in content.split('\n')
RECURSIVE load_lines(_, _, _)
load_lines(processor, config, lines) ==
    IF lines = <<>> THEN config
    ELSE load_lines(processor,
                    IF loads(processor, Head(lines)) THEN load_line(config, Head(lines))
                    ELSE config,
                    Tail(lines))

\* a loader that leaves the taxonomy as it is when the file is missing
Mutant_load_merchant_config(processor, config, file) ==
    load_lines(processor, config, content_lines(file.lines))

\* load_merchant_config of the processor, on the taxonomy config it holds: a missing file
\* replaces the taxonomy by the default one, the lines of a file are merged into it
load_merchant_config(processor, config, file) ==
    IF ~file.exists THEN Default_merchant_config
    ELSE load_lines(processor, config, content_lines(file.lines))

\* the three comment lines and the blank line update_merchant_config writes first
ConfigHeader ==
    << <<"#", SP, "Merchant", SP, "Categories", SP, "Configuration">>,
       <<"#", SP, "Format:", SP, "CategoryName", SP, "=", SP, "search_term1", ",", SP,
         "search_term2", ",", SP, "search_term3">>,
       <<"#", SP, "Lines", SP, "starting", SP, "with", SP, "#", SP, "are", SP,
         "comments", SP, "and", SP, "ignored">>,
       <<>> >>

\* f"{category} = {', '.join(keywords)}\n"
config_line(category, keywords) == category \o <<SP, "=", SP>> \o join(keywords, <<",", SP>>)

\* if category and keywords
IsWritten(item) == item[1] # <<>> /\ item[2] # <<>>

\* the lines update_merchant_config writes for merchants
written_lines(merchants) ==
    ConfigHeader \o
    [i \in DOMAIN SelectSeq(merchants, IsWritten) |->
        config_line(SelectSeq(merchants, IsWritten)[i][1], SelectSeq(merchants, IsWritten)[i][2])]

\* the state of a processor's taxonomy and of the file after an operation, and what
\* the operation returned
Stored(config, file, returned) == [config |-> config, file |-> file, returned |-> returned]

\* update_merchant_config: open(..., 'w') raises when the file cannot be written
update_merchant_config(processor, config, file, merchants, writable) ==
    IF ~writable THEN Stored(config, file, FALSE)
    ELSE Stored(load_merchant_config(processor, config, ConfigFile(written_lines(merchants))),
                ConfigFile(written_lines(merchants)), TRUE)

\* [k.strip() for k in keywords.split(',') if k.strip()]
keyword_list(keywords) == SelectSeq(stripped_keywords(keywords), LAMBDA k : k # <<>>)

\* add_merchant_category
add_merchant_category(processor, config, file, category, keywords, writable) ==
    IF category = <<>> \/ keyword_list(keywords) = <<>> THEN Stored(config, file, FALSE)
    ELSE update_merchant_config(processor,
                                SetItem(config, category, keyword_list(keywords)), file,
                                SetItem(config, category, keyword_list(keywords)), writable)

\* delete_merchant_category
delete_merchant_category(processor, config, file, category, writable) ==
    IF HasKey(config, category)
    THEN update_merchant_config(processor, DelItem(config, category), file,
                                DelItem(config, category), writable)
    ELSE Stored(config, file, FALSE)

\* the file a taxonomy with atomic category names was loaded from
Persisted(taxonomy) ==
    ConfigFile(written_lines([i \in DOMAIN taxonomy |->
                                << <<taxonomy[i][1]>>, taxonomy[i][2] >>]))

\* no update_merchant_config has the file open
NoWriter == [pc |-> "idle", buffer |-> <<>>]

-----------------------------------------------------------------------------
(* Inputs of the text specification *)

Date == <<"01", "-Sep-22">>

LinePool ==
    { \* institutional markers
      Phrase(<<"ocbc", "bank">>),
      Phrase(<<"DBS", "BANK", "LTD">>),
      Phrase(<<"65", "Chulia", "Street", "www.dbs.com">>),
      \* DBS anchors: date first, amount first, embedded date
      Date \o <<SP, "580", ".00", SP>> \o Phrase(<<"REMITTANCE", "TRANSFER", "OF", "FUNDS", "RTF">>),
      <<"273", ".92", SP>> \o Date \o <<SP>> \o Phrase(<<"FAST", "PAYMENT">>),
      Date \o <<SP, "580", ".00">>,
      Date \o <<SP, "0", ".00", SP>> \o Phrase(<<"MISC", "REF">>),
      Date \o <<SP, "580", ".00", "X", SP, "MISC">>,
      <<"SGD", SP, "580">> \o Date \o <<SP, "540", ".14">>,
      \* OCBC anchors: columns separated by two spaces
      <<"01", SP, "JUN", SP, SP, "213", ".38", SP, SP, "1", ",000", ".00", SP, SP,
        "PAYMENT", SP, "/", "TRANSFER", SP, "OTHR", SP, "SGD">>,
      <<"02", SP, "JUN", SP, SP>> \o Phrase(<<"FAST", "TRANSFER", "OTHR">>) \o <<SP, SP, "580", ".00">>,
      <<"03", SP, "JUN", SP, SP, "45", ".00">>,
      <<"02", SP, "JUN", SP, SP, "45", ".00", SP, SP, "1", ",000", ".00", SP, SP>>
            \o Phrase(<<"DEBIT", "PURCHASE", "AMAZON">>),
      \* continuation lines, a short line and a blank line
      Phrase(<<"HERO", "FOODPANDA">>),
      Phrase(<<"TRANSFER", "REF">>),
      <<"REF">>,
      <<>> }

\* text.split('\n') of every text of 1 to n lines of the pool
RECURSIVE TextsUpTo(_)
TextsUpTo(n) ==
    IF n = 1 THEN {<<l>> : l \in LinePool}
    ELSE LET shorter == TextsUpTo(n - 1) IN
         shorter \cup {Append(t, l) : t \in {u \in shorter : Len(u) = n - 1}, l \in LinePool}

\* a data directory that does not exist
NoDirectory == [exists |-> FALSE, files |-> <<>>]

TextTaxonomy == << <<"Hero", HeroKeywords>>, <<"Amazon", AmazonKeywords>> >>

InitText ==
    /\ text \in TextsUpTo(MaxLines)
    /\ merchant_config = TextTaxonomy
    /\ description = <<>>
    /\ amount = <<>>
    /\ data_dir = NoDirectory
    /\ op = "init"
    /\ arg = <<>>
    /\ calls = <<>>
    /\ out = <<>>
    /\ self = Multi
    /\ config_file = Persisted(merchant_config)
    /\ writer = NoWriter

DetectBankFormat ==
    /\ op' = "detect_bank_format"
    /\ out' = detect_bank_format(text)
    /\ UNCHANGED <<description, amount, merchant_config, text, data_dir, arg, calls>>
    /\ UNCHANGED configVars

ExtractDBS ==
    /\ op' = "dbs_extract_transactions"
    /\ out' = extract_transactions(DBS, merchant_config, text)
    /\ UNCHANGED <<description, amount, merchant_config, text, data_dir, arg, calls>>
    /\ UNCHANGED configVars

ExtractOCBC ==
    /\ op' = "ocbc_extract_transactions"
    /\ out' = extract_transactions(OCBC, merchant_config, text)
    /\ UNCHANGED <<description, amount, merchant_config, text, data_dir, arg, calls>>
    /\ UNCHANGED configVars

NextText ==
    \/ DetectBankFormat
    \/ ExtractDBS
    \/ ExtractOCBC

SpecText == InitText /\ [][NextText]_vars

-----------------------------------------------------------------------------
(* Inputs of the classifier specification *)

DescPool ==
    { <<"PAYMENT", SP, "/", "TRANSFER", SP, "OTHR", SP, "SGD">>,
      <<"payment", SP, "/", "transfer", SP, "othr">>,
      Phrase(<<"FAST", "TRANSFER", "OTHR">>),
      Phrase(<<"CASH", "REBATE", "FAST", "TRANSFER", "OTHR">>),
      Phrase(<<"DEBIT", "PURCHASE", "AMAZON", "HERO">>),
      Phrase(<<"Debit", "Purchase", "Foodpanda">>),
      Phrase(<<"FAST", "PAYMENT">>),
      Phrase(<<"FAST", "PAYMENT", "TRANSFER">>),
      Phrase(<<"GIRO", "PAYMENT">>),
      Phrase(<<"REMITTANCE", "TRANSFER", "OF", "FUNDS", "RTF">>),
      Phrase(<<"CASH", "TRANSACTION">>),
      Phrase(<<"SERVICE", "CHARGE">>),
      Phrase(<<"MISC", "REF">>),
      <<>> }

AmountPool ==
    { <<"580", ".00">>, <<"0", ".00">>, <<"1", ",000", ".00">>, <<"580", ".00", "X">>, <<>> }

\* taxonomies a configuration file can hold: the line "Amazon = amazon, amzn," loads
\* with a last, empty keyword
TaxonomyPool ==
    { DefaultTaxonomy,
      << <<"Hero", HeroKeywords>>, <<"Amazon", AmazonKeywords>> >>,
      << <<"Amazon", << <<"AMAZON">> >> >>, <<"Hero", HeroKeywords>> >>,
      << <<"Hero", HeroKeywords>>, <<"Amazon", AmazonKeywords \o << <<>> >> >> >>,
      <<>> }

NoText == << <<>> >>

InitClassify ==
    /\ description \in DescPool
    /\ amount \in AmountPool
    /\ merchant_config \in TaxonomyPool
    /\ text = NoText
    /\ data_dir = NoDirectory
    /\ op = "init"
    /\ arg = <<>>
    /\ calls = <<>>
    /\ out = <<>>
    /\ self = Multi
    /\ config_file = Persisted(merchant_config)
    /\ writer = NoWriter

\* the dict the line parsers hand to the classifier: the captured amount is in withdrawal
ParsedOCBC(desc, amt) ==
    [transaction_date |-> <<>>, value_date |-> <<>>, description |-> desc, cheque |-> <<>>,
     withdrawal |-> amt, deposit |-> <<>>, balance |-> <<>>]

ParsedDBS(desc, amt) ==
    [transaction_date |-> <<>>, value_date |-> <<>>, transaction_details |-> desc,
     withdrawal |-> amt, deposit |-> <<>>, balance |-> <<>>]

AssignOCBC ==
    /\ op' = "_assign_ocbc_transaction_type"
    /\ out' = OCBC_assign_ocbc_transaction_type(ParsedOCBC(description, amount))
    /\ UNCHANGED <<description, amount, merchant_config, text, data_dir, arg, calls>>
    /\ UNCHANGED configVars

AssignDBS ==
    /\ op' = "_assign_dbs_transaction_type"
    /\ out' = DBS_assign_dbs_transaction_type(ParsedDBS(description, amount))
    /\ UNCHANGED <<description, amount, merchant_config, text, data_dir, arg, calls>>
    /\ UNCHANGED configVars

LegacyDirection ==
    /\ op' = "legacy_transaction_type"
    /\ out' = Legacy_transaction_type(description)
    /\ UNCHANGED <<description, amount, merchant_config, text, data_dir, arg, calls>>
    /\ UNCHANGED configVars

DetermineType ==
    /\ op' = "determine_transaction_type"
    /\ \E asWithdrawal \in BOOLEAN :
          out' = determine_transaction_type(description,
                    IF asWithdrawal THEN amount ELSE <<>>,
                    IF asWithdrawal THEN <<>> ELSE amount)
    /\ UNCHANGED <<description, amount, merchant_config, text, data_dir, arg, calls>>
    /\ UNCHANGED configVars

Categorize ==
    /\ op' = "categorize_merchant"
    /\ out' = categorize_merchant(merchant_config, description)
    /\ UNCHANGED <<description, amount, merchant_config, text, data_dir, arg, calls>>
    /\ UNCHANGED configVars

CategorizeOCBC ==
    /\ op' = "ocbc_categorize_merchant"
    /\ out' = OCBC_categorize_merchant(merchant_config, description)
    /\ UNCHANGED <<description, amount, merchant_config, text, data_dir, arg, calls>>
    /\ UNCHANGED configVars

NextClassify ==
    \/ AssignOCBC
    \/ AssignDBS
    \/ LegacyDirection
    \/ DetermineType
    \/ Categorize
    \/ CategorizeOCBC

SpecClassify == InitClassify /\ [][NextClassify]_vars

-----------------------------------------------------------------------------
(* Documents and the data directory *)

\* a file name is the lexemes <<stem, extension>>
DocNames ==
    { <<"ocbc", ".pdf">>, <<"DBS", ".PDF">>, <<"plain", ".pdf">>, <<"empty", ".pdf">>,
      <<"bare", ".pdf">>, <<"broken", ".pdf">>, <<"notes", ".txt">> }

\* PdfReader(filepath) and the page loop text += page.extract_text() + "\n", then
\* text.split('\n'): the lines of the document's text (the last one is empty when the
\* document has a page), or the exception raised for a file PdfReader cannot read
PdfText(filename) ==
    CASE filename = <<"ocbc", ".pdf">> ->
            [readable |-> TRUE,
             lines |-> << Phrase(<<"OCBC", "Bank">>),
                          <<"01", SP, "JUN", SP, SP, "213", ".38", SP, SP, "1", ",000", ".00",
                            SP, SP, "PAYMENT", SP, "/", "TRANSFER", SP, "OTHR", SP, "SGD">>,
                          <<>> >>]
      [] filename = <<"DBS", ".PDF">> ->
            [readable |-> TRUE,
             lines |-> << Phrase(<<"DBS", "Bank", "Ltd">>),
                          Date \o <<SP, "580", ".00", "X", SP, "MISC">>,
                          <<"273", ".92", SP>> \o Date \o <<SP>> \o Phrase(<<"FAST", "PAYMENT">>),
                          <<>> >>]
      [] filename = <<"plain", ".pdf">> ->
            [readable |-> TRUE,
             lines |-> << Date \o <<SP, "580", ".00", SP>> \o Phrase(<<"MISC", "REF">>), <<>> >>]
      [] filename = <<"empty", ".pdf">> ->
            [readable |-> TRUE, lines |-> << <<>> >>]
      [] filename = <<"bare", ".pdf">> ->
            [readable |-> TRUE,
             lines |-> << Phrase(<<"DBS", "Bank", "Ltd">>), Phrase(<<"TRANSFER", "REF">>), <<>> >>]
      [] OTHER -> [readable |-> FALSE, lines |-> <<>>]

\* every listing of at most n distinct files
RECURSIVE ListingsUpTo(_)
ListingsUpTo(n) ==
    IF n = 0 THEN {<<>>}
    ELSE LET shorter == ListingsUpTo(n - 1) IN
         shorter \cup
            {Append(p[1], p[2]) :
                p \in {q \in {u \in shorter : Len(u) = n - 1} \X DocNames :
                            \A i \in DOMAIN q[1] : q[1][i] # q[2]}}

\* every selection of at most n file names
RECURSIVE SelectionsUpTo(_)
SelectionsUpTo(n) ==
    IF n = 0 THEN {<<>>}
    ELSE LET shorter == SelectionsUpTo(n - 1) IN
         shorter \cup {Append(t, f) : t \in {u \in shorter : Len(u) = n - 1},
                                      f \in DocNames}

\* os.path.exists(os.path.join(data_dir, filename))
Exists(dir, filename) == dir.exists /\ \E i \in DOMAIN dir.files : dir.files[i] = filename

\* s.endswith(suffix)
EndsWith(s, suffix) ==
    Len(s) >= Len(suffix) /\ SubSeq(s, Len(s) - Len(suffix) + 1, Len(s)) = suffix

\* filename.lower().endswith('.pdf')
IsPdf(filename) == EndsWith(lower(filename), <<".pdf">>)

-----------------------------------------------------------------------------
(* MultiFormatProcessor.process_file *)

format_name(processor) ==
    IF processor = OCBC THEN "OCBC Business Growth Account Statement"
    ELSE "DBS Corporate Account Statement"

\* processor.get_processor_info()
get_processor_info(processor) ==
    [bank_name |-> processor, format_name |-> format_name(processor)]

Failure(error, processor_info) ==
    [success |-> FALSE, error |-> error, transactions |-> <<>>,
     processor_info |-> processor_info]

NoInfo == [bank_name |-> None, format_name |-> None]

\* a run of an operation: the value it returns and the calls it made
Run(result, made) == [result |-> result, calls |-> made]

\* process_file from the return of processor.extract_transactions(text) on
process_extracted(filename, processor, transactions) ==
    Run(IF transactions # <<>>
        THEN [success |-> TRUE, transactions |-> transactions,
              processor_info |-> get_processor_info(processor),
              bank_name |-> processor, format_name |-> format_name(processor),
              filename |-> filename]
        ELSE Failure(<<"No transactions found in ", filename>>, get_processor_info(processor)),
        << <<"extract_transactions", processor>> >>)

\* the mutant hands an undetected text to the first registered processor
Mutant_process_detected(config, filename, lines, processor) ==
    process_extracted(filename, IF processor = None THEN processors[1] ELSE processor,
                      extract_transactions(IF processor = None THEN processors[1] ELSE processor,
                                           config, lines))

\* process_file from the return of self.detect_bank_format(text) on
process_detected(config, filename, lines, processor) ==
    IF processor = None
    THEN Run(Failure(<<"Unsupported bank format">>, NoInfo), <<>>)
    ELSE process_extracted(filename, processor, extract_transactions(processor, config, lines))

\* the mutant reports an empty text as a success with no records
Mutant_process_read(config, filename, pdf) ==
    IF ~pdf.readable
    THEN Run(Failure(<<"Error processing ", filename>>, NoInfo), <<>>)
    ELSE IF pdf.lines = << <<>> >>
    THEN Run([success |-> TRUE, transactions |-> <<>>, processor_info |-> NoInfo], <<>>)
    ELSE process_detected(config, filename, pdf.lines, detect_bank_format(pdf.lines))

\* the try block of process_file: an exception of PdfReader is caught by its except
process_read(config, filename, pdf) ==
    IF ~pdf.readable
    THEN Run(Failure(<<"Error processing ", filename>>, NoInfo), <<>>)
    ELSE process_detected(config, filename, pdf.lines, detect_bank_format(pdf.lines))

\* MultiFormatProcessor.process_file
process_file(dir, config, filename) ==
    IF ~Exists(dir, filename)
    THEN Run(Failure(<<"File not found: ", filename>>, NoInfo), <<>>)
    ELSE process_read(config, filename, PdfText(filename))

\* BaseBankProcessor.process_file of one registered processor: the list it returns
Base_process_read(processor, config, pdf) ==
    IF ~pdf.readable THEN <<>>
    ELSE IF ~detect_format(processor, pdf.lines) THEN <<>>
    ELSE extract_transactions(processor, config, pdf.lines)

Base_process_file(processor, dir, config, filename) ==
    IF ~Exists(dir, filename) THEN <<>>
    ELSE Base_process_read(processor, config, PdfText(filename))

-----------------------------------------------------------------------------
(* MultiFormatProcessor.process_all_files *)

\* results.append(result), after the call self.process_file(filename)
Collected(acc, filename, run) ==
    Run(Append(acc.result, run.result),
        acc.calls \o << <<"process_file", filename>> >> \o run.calls)

\* the mutant leaves the loop after the first failed document
RECURSIVE Mutant_process_all_loop(_, _, _, _)
Mutant_process_all_loop(dir, config, todo, acc) ==
    IF todo = <<>> THEN acc
    ELSE IF acc.result # <<>> /\ ~acc.result[Len(acc.result)].success THEN acc
    ELSE Mutant_process_all_loop(dir, config, Tail(todo),
            Collected(acc, Head(todo), process_file(dir, config, Head(todo))))

\* for filename in pdf_files
RECURSIVE process_all_loop(_, _, _, _)
process_all_loop(dir, config, todo, acc) ==
    IF todo = <<>> THEN acc
    ELSE process_all_loop(dir, config, Tail(todo),
            Collected(acc, Head(todo), process_file(dir, config, Head(todo))))

\* pdf_files = [f for f in os.listdir(self.data_dir) if f.lower().endswith('.pdf')]
pdf_files(dir) == SelectSeq(dir.files, IsPdf)

\* MultiFormatProcessor.process_all_files
process_all_files(dir, config) ==
    IF ~dir.exists THEN Run(<<>>, <<>>)
    ELSE process_all_loop(dir, config, pdf_files(dir), Run(<<>>, <<>>))

-----------------------------------------------------------------------------
(* app.process_batch *)

\* batch_size of a request that names none
DefaultBatchSize == 50

\* the entry of processed_files for one result
Entry(filename, result) ==
    IF result.success
    THEN [filename |-> filename, bank_name |-> result.bank_name,
          format_name |-> result.format_name,
          transaction_count |-> Len(result.transactions)]
    ELSE [filename |-> filename, error |-> result.error]

\* the transactions of a successful result, tagged with their source
Tagged(filename, result) ==
    IF result.success
    THEN [k \in DOMAIN result.transactions |->
            Put(Put(Put(result.transactions[k], "source_file", filename),
                    "bank_name", result.bank_name),
                "format_name", result.format_name)]
    ELSE <<>>

\* one pass of the loop over valid_files, after the call processor.process_file(filename)
Batched(acc, filename, run) ==
    [processed_files |-> Append(acc.processed_files, Entry(filename, run.result)),
     all_transactions |-> acc.all_transactions \o Tagged(filename, run.result),
     calls |-> acc.calls \o << <<"process_file", filename>> >> \o run.calls]

\* for filename in valid_files
RECURSIVE batch_loop(_, _, _, _)
batch_loop(dir, config, todo, acc) ==
    IF todo = <<>> THEN acc
    ELSE batch_loop(dir, config, Tail(todo),
            Batched(acc, Head(todo), process_file(dir, config, Head(todo))))

\* valid_files: the selected files that exist in the data directory and are PDFs
valid_files(dir, selected_files) ==
    SelectSeq(selected_files, LAMBDA f : Exists(dir, f) /\ IsPdf(f))

ErrorResponse(status, error) == [status |-> status, error |-> error]

\* process_batch from the end of the loop over valid_files on; writing the output
\* workbooks raises when the output folder cannot be written
batch_response(acc, writable) ==
    Run(IF acc.all_transactions = <<>>
        THEN ErrorResponse(400, "No transactions extracted from any files")
        ELSE IF ~writable
        THEN ErrorResponse(500, "Batch processing failed")
        ELSE [status |-> 200,
              message |-> "Multi-format batch processing completed successfully",
              total_files |-> Len(acc.processed_files),
              total_transactions |-> Len(acc.all_transactions),
              batches_processed |->
                  (Len(acc.all_transactions) + DefaultBatchSize - 1) \div DefaultBatchSize,
              processed_files |-> acc.processed_files],
        acc.calls)

process_valid(dir, config, valid, writable) ==
    IF valid = <<>>
    THEN Run(ErrorResponse(400, "No valid PDF files found among selected files"), <<>>)
    ELSE batch_response(
            batch_loop(dir, config, valid,
                       [processed_files |-> <<>>, all_transactions |-> <<>>, calls |-> <<>>]),
            writable)

\* app.process_batch for a request that names selected_files and nothing else
process_batch(dir, config, selected_files, writable) ==
    IF selected_files = <<>>
    THEN Run(ErrorResponse(400, "No files selected for processing"), <<>>)
    ELSE process_valid(dir, config, valid_files(dir, selected_files), writable)

-----------------------------------------------------------------------------
(* The file-level specification: one call is handled at a time *)

Init ==
    /\ data_dir \in {NoDirectory}
                        \cup {[exists |-> TRUE, files |-> l] : l \in ListingsUpTo(MaxDocs)}
    /\ merchant_config = TextTaxonomy
    /\ text = NoText
    /\ description = <<>>
    /\ amount = <<>>
    /\ op = "init"
    /\ arg = <<>>
    /\ calls = <<>>
    /\ out = <<>>
    /\ self = Multi
    /\ config_file = Persisted(merchant_config)
    /\ writer = NoWriter

\* the operation returns: its value and the calls it made become visible
Returned(run) == out' = run.result /\ calls' = run.calls

ProcessFile ==
    /\ op = "init"
    /\ \E filename \in DocNames :
          /\ arg' = filename
          /\ Returned(process_file(data_dir, merchant_config, filename))
    /\ op' = "process_file"
    /\ UNCHANGED <<description, amount, merchant_config, text, data_dir>>
    /\ UNCHANGED configVars

ProcessFileBase ==
    /\ op = "init"
    /\ \E filename \in DocNames, k \in DOMAIN processors :
          /\ arg' = <<processors[k], filename>>
          /\ out' = Base_process_file(processors[k], data_dir, merchant_config, filename)
    /\ op' = "base_process_file"
    /\ calls' = <<>>
    /\ UNCHANGED <<description, amount, merchant_config, text, data_dir>>
    /\ UNCHANGED configVars

ProcessAllFiles ==
    /\ op = "init"
    /\ op' = "process_all_files"
    /\ arg' = <<>>
    /\ Returned(process_all_files(data_dir, merchant_config))
    /\ UNCHANGED <<description, amount, merchant_config, text, data_dir>>
    /\ UNCHANGED configVars

ProcessBatch ==
    /\ op = "init"
    /\ \E selected_files \in SelectionsUpTo(MaxFiles), writable \in BOOLEAN :
          /\ arg' = selected_files
          /\ Returned(process_batch(data_dir, merchant_config, selected_files, writable))
    /\ op' = "process_batch"
    /\ UNCHANGED <<description, amount, merchant_config, text, data_dir>>
    /\ UNCHANGED configVars

\* the caller has taken the returned value; the next call can be made
Deliver ==
    /\ op # "init"
    /\ op' = "init"
    /\ arg' = <<>>
    /\ calls' = <<>>
    /\ out' = <<>>
    /\ UNCHANGED <<description, amount, merchant_config, text, data_dir>>
    /\ UNCHANGED configVars

Next ==
    \/ ProcessFile
    \/ ProcessFileBase
    \/ ProcessAllFiles
    \/ ProcessBatch
    \/ Deliver

Spec == Init /\ [][Next]_vars

-----------------------------------------------------------------------------
(* The taxonomy specification.  As in app.py, every request constructs its    *)
(* processor and calls one configuration operation on it.                    *)

Hero == <<"Hero">>
Amazon == <<"Amazon">>

\* category names handed to add_merchant_category and delete_merchant_category
CategoryPool == {Hero, Amazon, <<"#", "Promo">>, <<>>}

\* keyword strings handed to add_merchant_category
KeywordsPool == { <<"hero", ",", SP, "foodpanda">>, <<SP, ",", SP>> }

\* dicts handed to update_merchant_config
MerchantsPool ==
    { << <<Hero, HeroKeywords>>, <<Amazon, AmazonKeywords>> >>,
      << <<Amazon, AmazonKeywords>>, <<Hero, HeroKeywords>> >>,
      << <<Hero, <<>> >>, <<Amazon, AmazonKeywords>> >>,
      <<>> }

\* a file written by hand: a comment, a blank line, an entry, an indented comment that
\* holds an equals sign
HandWritten ==
    ConfigFile(<< <<"#", SP, "my", SP, "shops">>,
                  <<SP>>,
                  <<"Hero", SP, "=", SP, "hero">>,
                  <<SP, "#", SP, "Amazon", SP, "=", SP, "amzn">> >>)

\* the states of the file a processor is constructed on
ConfigFilePool ==
    {NoConfigFile, HandWritten, ConfigFile(<<>>)}
        \cup {ConfigFile(written_lines(m)) : m \in MerchantsPool}

\* the classes whose objects hold a taxonomy
ProcessorClasses == {Multi, DBS, OCBC}

\* the constructors: MultiFormatProcessor and DBSBankProcessor load into an empty
\* merchant_config; OCBCBankProcessor loads into an empty merchant_categories and then
\* adds the category 'Other' with no keyword
construct(processor, file) ==
    IF processor = OCBC
    THEN SetItem(load_merchant_config(OCBC, <<>>, file), <<"Other">>, <<>>)
    ELSE load_merchant_config(processor, <<>>, file)

InitConfig ==
    /\ self \in ProcessorClasses
    /\ config_file \in ConfigFilePool
    /\ merchant_config = construct(self, config_file)
    /\ writer = NoWriter
    /\ text = NoText
    /\ description = <<>>
    /\ amount = <<>>
    /\ data_dir = NoDirectory
    /\ op = "__init__"
    /\ arg = <<>>
    /\ calls = <<>>
    /\ out = <<>>

\* a processor of some class is constructed on the file as it is
Construct ==
    /\ \E class \in ProcessorClasses :
          /\ self' = class
          /\ merchant_config' = construct(class, config_file)
    /\ op' = "__init__"
    /\ arg' = <<>>
    /\ out' = <<>>
    /\ UNCHANGED <<description, amount, text, data_dir, calls, config_file, writer>>

\* load_merchant_config is called again on the processor; arg keeps the taxonomy it held
LoadMerchantConfig ==
    /\ op \in {"__init__", "remove"}
    /\ merchant_config' = load_merchant_config(self, merchant_config, config_file)
    /\ op' = "load_merchant_config"
    /\ arg' = merchant_config
    /\ out' = <<>>
    /\ UNCHANGED <<description, amount, text, data_dir, calls, self, config_file, writer>>

\* the operation returns: the taxonomy, the file and the returned flag become visible
Persist(stored) ==
    /\ merchant_config' = stored.config
    /\ config_file' = stored.file
    /\ out' = stored.returned

UpdateMerchantConfig ==
    /\ op = "__init__"
    /\ self \in {Multi, DBS}
    /\ \E merchants \in MerchantsPool, writable \in BOOLEAN :
          /\ arg' = merchants
          /\ Persist(update_merchant_config(self, merchant_config, config_file,
                                            merchants, writable))
    /\ op' = "update_merchant_config"
    /\ UNCHANGED <<description, amount, text, data_dir, calls, self, writer>>

AddMerchantCategory ==
    /\ op = "__init__"
    /\ self \in {Multi, DBS}
    /\ \E category \in CategoryPool, keywords \in KeywordsPool, writable \in BOOLEAN :
          /\ arg' = <<category, keywords>>
          /\ Persist(add_merchant_category(self, merchant_config, config_file,
                                           category, keywords, writable))
    /\ op' = "add_merchant_category"
    /\ UNCHANGED <<description, amount, text, data_dir, calls, self, writer>>

DeleteMerchantCategory ==
    /\ op = "__init__"
    /\ self \in {Multi, DBS}
    /\ \E category \in CategoryPool, writable \in BOOLEAN :
          /\ arg' = category
          /\ Persist(delete_merchant_category(self, merchant_config, config_file,
                                              category, writable))
    /\ op' = "delete_merchant_category"
    /\ UNCHANGED <<description, amount, text, data_dir, calls, self, writer>>

\* the file is removed from the working directory
RemoveConfigFile ==
    /\ config_file.exists
    /\ config_file' = NoConfigFile
    /\ op' = "remove"
    /\ arg' = <<>>
    /\ out' = <<>>
    /\ UNCHANGED <<description, amount, merchant_config, text, data_dir, calls, self, writer>>

NextConfig ==
    \/ Construct
    \/ LoadMerchantConfig
    \/ UpdateMerchantConfig
    \/ AddMerchantCategory
    \/ DeleteMerchantCategory
    \/ RemoveConfigFile

SpecConfig == InitConfig /\ [][NextConfig]_vars

-----------------------------------------------------------------------------
(* Claims about the classifier, checked under SpecClassify *)

C4_StrongMarkerOverride ==
    op \in {"_assign_ocbc_transaction_type", "legacy_transaction_type"} =>
        LET dep == IF op = "_assign_ocbc_transaction_type"
                   THEN OCBC_deposit_keywords ELSE Legacy_deposit_keywords
            wdr == IF op = "_assign_ocbc_transaction_type"
                   THEN OCBC_withdrawal_keywords ELSE Legacy_withdrawal_keywords
            d == upper(description)
            both == (\E i \in DOMAIN dep : Contains(d, dep[i]))
                        /\ (\E i \in DOMAIN wdr : Contains(d, wdr[i]))
            strong == \E i \in DOMAIN Legacy_override_keywords :
                            Contains(d, Legacy_override_keywords[i])
            direction == IF op = "legacy_transaction_type"
                         THEN (IF out = "DEPOSIT" THEN "Deposit" ELSE "Withdrawal")
                         ELSE out.transaction_type
        IN  both => (direction = IF strong THEN "Deposit" ELSE "Withdrawal")

\* the taxonomy's first category, in stored order, with a keyword occurring in the
\* description regardless of case; "Other" when there is none
FirstMatchingCategory ==
    LET hits == {i \in DOMAIN merchant_config :
                    \E j \in DOMAIN merchant_config[i][2] :
                        Contains(lower(description), lower(merchant_config[i][2][j]))}
    IN  IF hits = {} THEN "Other"
        ELSE merchant_config[CHOOSE i \in hits : \A k \in hits : i <= k][1]

\* C5 (as claimed): categorize_merchant, of the base and of the OCBC processor, returns
\* the first category in stored order with a keyword occurring case-insensitively in the
\* description, and "Other" when no category has one.
C5_FirstMatchWins_AsClaimed ==
    op \in {"categorize_merchant", "ocbc_categorize_merchant"} => out = FirstMatchingCategory

\* C5 (amended): as claimed for the base processor, and for the OCBC processor on every
\* non-empty description; the OCBC processor returns "Other" for an empty description
\* without consulting the taxonomy.
C5_FirstMatchWins ==
    /\ op = "categorize_merchant" => out = FirstMatchingCategory
    /\ op = "ocbc_categorize_merchant" =>
            out = IF description = <<>> THEN "Other" ELSE FirstMatchingCategory

\* C5 witness: categories Hero then Amazon, a description matching both, result Hero
C5_Witness ==
    /\ op = "categorize_merchant"
    /\ merchant_config = << <<"Hero", HeroKeywords>>, <<"Amazon", AmazonKeywords>> >>
    /\ description = Phrase(<<"DEBIT", "PURCHASE", "AMAZON", "HERO">>)
    /\ out = "Hero"

-----------------------------------------------------------------------------
(* Claims about detection and extraction, checked under SpecText *)

\* C1: for every document text detect_bank_format returns the registered processor
\* of lowest registration index whose detect_format(text) is true, and None exactly
\* when no registered processor detects the text; a text with markers of both banks goes
\* to OCBC, which is registered before DBS.
C1_FirstDetectingProcessor ==
    op = "detect_bank_format" =>
        LET detecting == {k \in DOMAIN processors : detect_format(processors[k], text)} IN
        /\ detecting # {} =>
              out = processors[CHOOSE k \in detecting : \A j \in detecting : k <= j]
        /\ (detecting = {}) <=> (out = None)
        /\ (detect_format(OCBC, text) /\ detect_format(DBS, text)) => out = OCBC

\* C1 witness: a text holding markers of both banks has been dispatched to OCBC
C1_Witness ==
    /\ op = "detect_bank_format"
    /\ detect_format(OCBC, text) /\ detect_format(DBS, text)
    /\ out = OCBC

\* C2 (as claimed): every record returned by extract_transactions of the DBS and of the
\* OCBC processor has exactly one of withdrawal and deposit populated, never both and
\* never neither.
C2_ExactlyOneAmountField ==
    op \in {"dbs_extract_transactions", "ocbc_extract_transactions"} =>
        \A k \in DOMAIN out : (out[k].withdrawal # <<>>) # (out[k].deposit # <<>>)

\* C6 (as claimed): the transaction_type of every record returned by a registered
\* processor's extract_transactions is Deposit or Withdrawal, and no other value.
C6_TypeIsDepositOrWithdrawal ==
    op \in {"dbs_extract_transactions", "ocbc_extract_transactions"} =>
        \A k \in DOMAIN out : out[k].transaction_type \in {"Deposit", "Withdrawal"}

\* the try block of an anchor line ended without an exception and appended a record
Succeeded(r) == r.ok

\* the records of the outcomes that appended one, in the order of the outcomes
RecordsOf(outcomes) ==
    [k \in DOMAIN SelectSeq(outcomes, Succeeded) |-> SelectSeq(outcomes, Succeeded)[k].value]

\* C9: in extract_transactions a failure on one anchor line never aborts the document:
\* the records returned are exactly the records of the anchor lines whose own processing
\* succeeds, in source-line order, whatever happens on the other anchor lines.
C9_LineFailureIsLocal ==
    /\ op = "dbs_extract_transactions" =>
          out = RecordsOf([k \in DOMAIN DBS_transaction_lines(text) |->
                    DBS_process_line(merchant_config, text, DBS_transaction_lines(text)[k])])
    /\ op = "ocbc_extract_transactions" =>
          out = RecordsOf([k \in DOMAIN OCBC_transaction_lines(text) |->
                    OCBC_process_line(merchant_config, text, OCBC_transaction_lines(text)[k])])

\* C9 witness: the first anchor line of a DBS text raised, and the anchor line after it
\* still yielded its record
C9_Witness ==
    /\ op = "dbs_extract_transactions"
    /\ Len(text) = 2
    /\ DBS_transaction_lines(text) = <<1, 2>>
    /\ ~DBS_process_line(merchant_config, text, 1).ok
    /\ Len(out) = 1
    /\ out[1] = DBS_process_line(merchant_config, text, 2).value

-----------------------------------------------------------------------------
(* Claims about the file-level operations, checked under Spec *)

\* the document exists in the data directory and PdfReader reads it
Readable(filename) == Exists(data_dir, filename) /\ PdfText(filename).readable

\* the text extracted from the document is the empty string
EmptyText(filename) == PdfText(filename).lines = << <<>> >>

\* C7: when no registered processor detects the text of a document, process_file
\* returns the failure result with error "Unsupported bank format" and no transactions,
\* calls no processor's extract_transactions, and lets no exception escape.
C7_UnsupportedFormat ==
    (/\ op = "process_file"
     /\ Readable(arg)
     /\ \A k \in DOMAIN processors : ~detect_format(processors[k], PdfText(arg).lines)) =>
        /\ out = [success |-> FALSE, error |-> <<"Unsupported bank format">>,
                  transactions |-> <<>>, processor_info |-> NoInfo]
        /\ calls = <<>>

\* C7 witness: a readable document with a transaction line and no bank marker has been
\* refused
C7_Witness ==
    /\ op = "process_file"
    /\ arg = <<"plain", ".pdf">>
    /\ Readable(arg)
    /\ ~out.success
    /\ out.error = <<"Unsupported bank format">>

\* C8 (as claimed): processing a document whose extracted text is empty yields a
\* successful result with zero records.
C8_EmptyTextSucceeds ==
    (op = "process_file" /\ Readable(arg) /\ EmptyText(arg)) =>
        out.success /\ out.transactions = <<>>

\* C8 (amended): processing a document whose extracted text is empty yields zero records
\* and no exception, but not a success: MultiFormatProcessor.process_file returns the
\* failure "Unsupported bank format" without calling extract_transactions,
\* BaseBankProcessor.process_file returns the empty list, and extract_transactions of
\* either registered processor returns the empty list on the empty text.
C8_EmptyTextIsUnsupported ==
    /\ \A k \in DOMAIN processors :
          extract_transactions(processors[k], merchant_config, << <<>> >>) = <<>>
    /\ (op = "process_file" /\ Readable(arg) /\ EmptyText(arg)) =>
          /\ ~out.success
          /\ out.error = <<"Unsupported bank format">>
          /\ out.transactions = <<>>
          /\ calls = <<>>
    /\ (op = "base_process_file" /\ Readable(arg[2]) /\ EmptyText(arg[2])) => out = <<>>

\* C8 witness: the document with no page has been processed and refused
C8_Witness ==
    /\ op = "process_file"
    /\ arg = <<"empty", ".pdf">>
    /\ Readable(arg)
    /\ ~out.success
    /\ out.transactions = <<>>

IsProcessFileCall(c) == c[1] = "process_file"

\* one result per PDF file of the data directory, in listing order, each the result of
\* process_file on that file alone
OneResultPerListedFile ==
    /\ out = [i \in DOMAIN pdf_files(data_dir) |->
                process_file(data_dir, merchant_config, pdf_files(data_dir)[i]).result]
    /\ SelectSeq(calls, IsProcessFileCall)
          = [i \in DOMAIN pdf_files(data_dir) |-> <<"process_file", pdf_files(data_dir)[i]>>]

\* C10 (as claimed): in a batch run a failing document never stops the batch, and
\* exactly one result is produced per input document, in input order: per PDF file of
\* the data directory for process_all_files, per selected file for process_batch.
C10_OneResultPerDocument ==
    /\ op = "process_all_files" => OneResultPerListedFile
    /\ (op = "process_batch" /\ arg # <<>>) =>
          /\ "processed_files" \in DOMAIN out
          /\ Len(out.processed_files) = Len(arg)
          /\ \A i \in DOMAIN arg : out.processed_files[i].filename = arg[i]

\* the entries of processed_files for the files of valid, in order
EntriesOf(valid) ==
    [i \in DOMAIN valid |->
        Entry(valid[i], process_file(data_dir, merchant_config, valid[i]).result)]

\* C10 (amended): a failing document never stops a batch.  process_all_files returns
\* exactly one result per PDF file of the data directory, in listing order.
\* process_batch calls process_file once for each selected file that exists and is a
\* PDF, in selection order, whatever the earlier results; selected files that are
\* missing or not PDFs get no result; a completed response carries exactly one entry per
\* valid file, in order, and an error response carries no per-document result.
C10_BatchNeverStops ==
    /\ op = "process_all_files" => OneResultPerListedFile
    /\ op = "process_batch" =>
          /\ SelectSeq(calls, IsProcessFileCall)
                = [i \in DOMAIN valid_files(data_dir, arg) |->
                        <<"process_file", valid_files(data_dir, arg)[i]>>]
          /\ out.status = 200 =>
                out.processed_files = EntriesOf(valid_files(data_dir, arg))
          /\ out.status # 200 => "processed_files" \notin DOMAIN out

\* C10 witness: process_all_files met a failing document first and still returned the
\* result of the document after it
C10_Witness ==
    /\ op = "process_all_files"
    /\ Len(out) = 2
    /\ ~out[1].success
    /\ out[2].success

-----------------------------------------------------------------------------
(* Claims about the taxonomy operations, checked under SpecConfig *)

\* C11 (as claimed): after a successful update_merchant_config, add_merchant_category or
\* delete_merchant_category the in-memory taxonomy equals the taxonomy a fresh load of
\* the file produces (same categories, keyword lists and order), and after
\* update_merchant_config(m) every category in memory is a category of m that was written.
C11_MemoryEqualsFreshLoad ==
    (/\ op \in {"update_merchant_config", "add_merchant_category", "delete_merchant_category"}
     /\ out) =>
        /\ merchant_config = load_merchant_config(self, <<>>, config_file)
        /\ op = "update_merchant_config" =>
              \A i \in DOMAIN merchant_config :
                  \E j \in DOMAIN arg :
                      arg[j][1] = merchant_config[i][1] /\ IsWritten(arg[j])

\* neither a '#'-prefixed comment line nor a blank line
IsEntryLine(line) == ~IsComment(line) /\ ~IsBlank(line)

\* the file without its comment lines and blank lines
WithoutComments(file) == [exists |-> file.exists, lines |-> SelectSeq(file.lines, IsEntryLine)]

\* C12 (as claimed): every loader ignores the comment lines and the blank lines of the
\* file: what the base, the dispatcher and the OCBC loader put in memory is what they
\* would put in memory had those lines been removed from the file.
C12_CommentsAndBlanksIgnored ==
    /\ op = "__init__" => merchant_config = construct(self, WithoutComments(config_file))
    /\ op = "load_merchant_config" =>
          merchant_config = load_merchant_config(self, arg, WithoutComments(config_file))

\* C13: when the file is absent, load_merchant_config of every processor leaves exactly
\* the built-in default taxonomy in memory, whatever the taxonomy held before, and the
\* construction of the processor completes: with the default taxonomy for
\* MultiFormatProcessor and DBSBankProcessor, and with the default taxonomy followed by
\* the keyword-less category 'Other', which the constructor adds after loading, for
\* OCBCBankProcessor.
C13_MissingSourceFallsBack ==
    /\ (op = "load_merchant_config" /\ ~config_file.exists) =>
            merchant_config = Default_merchant_config
    /\ (op = "__init__" /\ ~config_file.exists) =>
            merchant_config = IF self = OCBC
                              THEN Append(Default_merchant_config, <<<<"Other">>, <<>>>>)
                              ELSE Default_merchant_config

\* C13 witness: a processor that held a taxonomy read from a file reloaded after the file
\* was removed, and holds the seven default categories in their order
C13_Witness ==
    /\ op = "load_merchant_config"
    /\ ~config_file.exists
    /\ arg # <<>> /\ arg # Default_merchant_config
    /\ [i \in DOMAIN merchant_config |-> merchant_config[i][1]]
          = << <<"Adyen">>, <<"MYR">>, <<"Lalamove">>, <<"Amazon">>, <<"Deliveroo">>,
               <<"Gpay">>, <<"Hero">> >>

-----------------------------------------------------------------------------
(* Batching and summary totals *)

MaxRecords == 3      \* records of a merged sequence drawn in InitReport
MaxBatchSize == 3    \* largest batch_size drawn in InitReport

\* batching that keeps only the full chunks
RECURSIVE Mutant_batch_transactions(_, _, _)
Mutant_batch_transactions(all_transactions, batch_size, i) ==
    IF i + batch_size > Len(all_transactions) THEN <<>>
    ELSE <<SubSeq(all_transactions, i + 1, i + batch_size)>>
            \o Mutant_batch_transactions(all_transactions, batch_size, i + batch_size)

\* all_transactions[i:i + batch_size] for i in range(0, len(all_transactions), batch_size),
\* from offset i on
RECURSIVE batch_transactions(_, _, _)
batch_transactions(all_transactions, batch_size, i) ==
    IF i >= Len(all_transactions) THEN <<>>
    ELSE <<SubSeq(all_transactions, i + 1, Min(i + batch_size, Len(all_transactions)))>>
            \o batch_transactions(all_transactions, batch_size, i + batch_size)

\* process_batch, create_individual_batches: the rows of the batch files in the order
\* they are written, and the batch count the response reports
individual_batches(all_transactions, batch_size) ==
    [batches |-> batch_transactions(all_transactions, batch_size, 0),
     batches_processed |-> (Len(all_transactions) + batch_size - 1) \div batch_size]

\* legacy process_files_in_batches: total_batches, by ceiling division
total_batches(total_files, batch_size) == (total_files + batch_size - 1) \div batch_size

\* legacy process_files_in_batches: pdf_files[start_idx:end_idx] of batch batch_num
batch_files(files, batch_size, batch_num) ==
    SubSeq(files, batch_num * batch_size + 1,
           Min(batch_num * batch_size + batch_size, Len(files)))

\* the concatenation of the chunks, in order: extend, chunk after chunk
RECURSIVE Concat(_)
Concat(chunks) == IF chunks = <<>> THEN <<>> ELSE Head(chunks) \o Concat(Tail(chunks))

\* legacy process_file(filename): the records extract_transactions returns for the text of
\* the document, as it builds them (amounts in cents); the empty list for a document that
\* is missing, has no text or has no transaction line
Legacy_process_file(filename) ==
    CASE filename = <<"ocbc", ".pdf">> ->
            << [description |-> Phrase(<<"PAYMENT", "HERO">>), withdrawal |-> 58000,
                deposit |-> 0, merchant_category |-> "Hero"],
               [description |-> Phrase(<<"FAST", "PAYMENT">>), withdrawal |-> 0,
                deposit |-> 21338, merchant_category |-> "Other"] >>
      [] filename = <<"DBS", ".PDF">> ->
            << [description |-> Phrase(<<"MISC", "REF">>), withdrawal |-> 4500,
                deposit |-> 0, merchant_category |-> "Other"] >>
      [] filename = <<"plain", ".pdf">> ->
            << [description |-> Phrase(<<"FAST", "PAYMENT">>), withdrawal |-> 0,
                deposit |-> 21338, merchant_category |-> "Other"] >>
      [] OTHER -> <<>>

\* legacy process_files_in_batches, the loop over batch_files: batch_transactions
Legacy_batch_transactions(files) ==
    Concat([k \in DOMAIN files |-> Legacy_process_file(files[k])])

\* legacy process_files_in_batches: the files of each batch, in the order of the batches,
\* and all_transactions, extended by the batch_transactions of each batch in turn
process_files_in_batches(files, batch_size) ==
    [batches |-> [b \in 1..total_batches(Len(files), batch_size) |->
                    batch_files(files, batch_size, b - 1)],
     batches_processed |-> total_batches(Len(files), batch_size),
     all_transactions |->
        Concat([b \in 1..total_batches(Len(files), batch_size) |->
                    Legacy_batch_transactions(batch_files(files, batch_size, b - 1))])]

\* sum(...) of a sequence of numbers
RECURSIVE Sum(_)
Sum(amounts) == IF amounts = <<>> THEN 0 ELSE Head(amounts) + Sum(Tail(amounts))

\* legacy calculate_totals, on amounts in cents
calculate_totals(transactions) ==
    [total_transactions |-> Len(transactions),
     total_withdrawal |-> Sum([k \in DOMAIN transactions |-> transactions[k].withdrawal]),
     total_deposit |-> Sum([k \in DOMAIN transactions |-> transactions[k].deposit]),
     net_amount |-> Sum([k \in DOMAIN transactions |-> transactions[k].deposit])
                        - Sum([k \in DOMAIN transactions |-> transactions[k].withdrawal])]

\* merchant_summary[category], a new category starting from the entry given
Entry_of(summary, category, new) ==
    IF HasKey(summary, category)
    THEN summary[CHOOSE i \in DOMAIN summary : summary[i][1] = category][2]
    ELSE new

\* legacy generate_merchant_summary, one pass of the loop: the record counts as a
\* withdrawal when it has a true 'is_withdrawal', as a deposit otherwise
summarise_transaction(summary, transaction) ==
    LET category == Get(transaction, "merchant_category", "Other")
        entry == Entry_of(summary, category,
                          [count |-> 0, total_withdrawal |-> 0, total_deposit |-> 0,
                           net_amount |-> 0])
    IN  SetItem(summary, category,
            IF Get(transaction, "is_withdrawal", FALSE)
            THEN [count |-> entry.count + 1,
                  total_withdrawal |-> entry.total_withdrawal + Get(transaction, "withdrawal", 0),
                  total_deposit |-> entry.total_deposit,
                  net_amount |-> entry.net_amount - Get(transaction, "withdrawal", 0)]
            ELSE [count |-> entry.count + 1,
                  total_withdrawal |-> entry.total_withdrawal,
                  total_deposit |-> entry.total_deposit + Get(transaction, "deposit", 0),
                  net_amount |-> entry.net_amount + Get(transaction, "deposit", 0)])

\* legacy generate_merchant_summary (the definition in force, the later of the two)
RECURSIVE generate_merchant_summary(_, _)
generate_merchant_summary(summary, transactions) ==
    IF transactions = <<>> THEN summary
    ELSE generate_merchant_summary(summarise_transaction(summary, Head(transactions)),
                                   Tail(transactions))

\* the digits of a lexeme as a number
DigitValue ==
    [l \in DigitLex \cup GroupLex |->
        CASE l = "0" -> 0 [] l = "1" -> 1 [] l = "01" -> 1 [] l = "02" -> 2 [] l = "03" -> 3
          [] l = "45" -> 45 [] l = "65" -> 65 [] l = "213" -> 213 [] l = "273" -> 273
          [] l = "540" -> 540 [] l = "580" -> 580 [] OTHER -> 0]

\* the hundredths of a decimal tail
DecimalValue ==
    [l \in DecimalLex |->
        CASE l = ".14" -> 14 [] l = ".38" -> 38 [] l = ".92" -> 92 [] OTHER -> 0]

\* ten to the power n
RECURSIVE Pow10(_)
Pow10(n) == IF n = 0 THEN 1 ELSE 10 * Pow10(n - 1)

\* the whole number written by digit runs and thousands groups, commas removed
RECURSIVE WholeValue(_)
WholeValue(s) ==
    IF s = <<>> THEN 0
    ELSE LET last == s[Len(s)]
             digits == IF last \in GroupLex THEN 3 ELSE Len(last)
         IN  WholeValue(SubSeq(s, 1, Len(s) - 1)) * Pow10(digits) + DigitValue[last]

\* float(str(amount).replace(',', '')) in cents, for a string that parses
float_cents(s) ==
    IF s[Len(s)] \in DecimalLex
    THEN WholeValue(SubSeq(s, 1, Len(s) - 1)) * 100 + DecimalValue[s[Len(s)]]
    ELSE WholeValue(s) * 100

\* process_batch, summary report: the amount added for a withdrawal or deposit field;
\* an empty field and a field float() rejects add nothing
added_amount(field) == IF field # <<>> /\ FloatParses(field) THEN float_cents(field) ELSE 0

\* process_batch, summary report, one pass of the loop over all_transactions
summarise_row(summary, transaction) ==
    LET category == Get(transaction, "merchant_category", "Other")
        entry == Entry_of(summary, category,
                          [total_count |-> 0, total_withdrawal |-> 0, total_deposit |-> 0])
    IN  SetItem(summary, category,
            [total_count |-> entry.total_count + 1,
             total_withdrawal |-> entry.total_withdrawal
                                    + added_amount(Get(transaction, "withdrawal", <<>>)),
             total_deposit |-> entry.total_deposit
                                    + added_amount(Get(transaction, "deposit", <<>>))])

\* process_batch, summary report: merchant_summary
RECURSIVE merchant_summary(_, _)
merchant_summary(summary, all_transactions) ==
    IF all_transactions = <<>> THEN summary
    ELSE merchant_summary(summarise_row(summary, Head(all_transactions)),
                          Tail(all_transactions))

\* process_batch, summary report: the rows of the sheet Merchant_Category_Summary
merchant_summary_list(summary) ==
    [i \in DOMAIN summary |->
        [Merchant_Category |-> summary[i][1],
         Total_Count |-> summary[i][2].total_count,
         Total_Withdrawal |-> summary[i][2].total_withdrawal,
         Total_Deposit |-> summary[i][2].total_deposit,
         Net_Amount |-> summary[i][2].total_deposit - summary[i][2].total_withdrawal]]

-----------------------------------------------------------------------------
(* The report specification: one merged record sequence, batched and summed *)

\* records as process_batch merges them: amounts are the strings of the statement
RowPool ==
    { [merchant_category |-> "Hero", withdrawal |-> <<"580", ".00">>, deposit |-> <<>>],
      [merchant_category |-> "Hero", withdrawal |-> <<>>, deposit |-> <<"213", ".38">>],
      [merchant_category |-> "Other", withdrawal |-> <<"1", ",000">>, deposit |-> <<>>],
      [merchant_category |-> "Other", withdrawal |-> <<"580", ".00", "X">>, deposit |-> <<>>],
      [merchant_category |-> "Amazon", withdrawal |-> <<>>, deposit |-> <<>>] }

\* records as the legacy extract_transactions builds them: the amount, in cents, in one of
\* withdrawal and deposit and zero in the other; no record has a key 'is_withdrawal'
LegacyPool ==
    { [merchant_category |-> "Hero", withdrawal |-> 58000, deposit |-> 0],
      [merchant_category |-> "Hero", withdrawal |-> 0, deposit |-> 21338],
      [merchant_category |-> "Other", withdrawal |-> 4500, deposit |-> 0],
      [merchant_category |-> "Other", withdrawal |-> 0, deposit |-> 58000] }

\* every sequence of at most n members of pool
RECURSIVE SeqsUpTo(_, _)
SeqsUpTo(pool, n) ==
    IF n = 0 THEN {<<>>}
    ELSE SeqsUpTo(pool, n - 1)
            \cup {Append(t, x) : t \in {u \in SeqsUpTo(pool, n - 1) : Len(u) = n - 1},
                                 x \in pool}

InitReport ==
    /\ \E source \in {"process_batch", "process_files_in_batches", "calculate_totals"} :
          arg \in [source : {source},
                   items : IF source = "process_batch" THEN SeqsUpTo(RowPool, MaxRecords)
                           ELSE IF source = "calculate_totals"
                           THEN SeqsUpTo(LegacyPool, MaxRecords)
                           ELSE SeqsUpTo(DocNames, MaxRecords),
                   batch_size : 1..MaxBatchSize]
    \* process_batch and process_files_in_batches return early on an empty sequence
    /\ arg.source = "calculate_totals" \/ arg.items # <<>>
    /\ merchant_config = <<>>
    /\ text = NoText
    /\ description = <<>>
    /\ amount = <<>>
    /\ data_dir = NoDirectory
    /\ op = "init"
    /\ calls = <<>>
    /\ out = <<>>
    /\ self = Multi
    /\ config_file = NoConfigFile
    /\ writer = NoWriter

\* process_batch writes the batch files of the merged records
CreateIndividualBatches ==
    /\ op = "init" /\ arg.source = "process_batch"
    /\ op' = "create_individual_batches"
    /\ out' = individual_batches(arg.items, arg.batch_size)
    /\ UNCHANGED <<description, amount, merchant_config, text, data_dir, arg, calls>>
    /\ UNCHANGED configVars

\* process_batch writes the merchant category summary of the merged records
CreateSummaryReport ==
    /\ op = "init" /\ arg.source = "process_batch"
    /\ op' = "create_summary_report"
    /\ out' = merchant_summary_list(merchant_summary(<<>>, arg.items))
    /\ UNCHANGED <<description, amount, merchant_config, text, data_dir, arg, calls>>
    /\ UNCHANGED configVars

\* the legacy processor splits the files into batches
ProcessFilesInBatches ==
    /\ op = "init" /\ arg.source = "process_files_in_batches"
    /\ op' = "process_files_in_batches"
    /\ out' = process_files_in_batches(arg.items, arg.batch_size)
    /\ UNCHANGED <<description, amount, merchant_config, text, data_dir, arg, calls>>
    /\ UNCHANGED configVars

\* the legacy processor reports the totals and the merchant summary of self.transactions
LegacySummary ==
    /\ op = "init" /\ arg.source = "calculate_totals"
    /\ op' = "calculate_totals"
    /\ out' = [totals |-> calculate_totals(arg.items),
               merchant_summary |-> generate_merchant_summary(<<>>, arg.items)]
    /\ UNCHANGED <<description, amount, merchant_config, text, data_dir, arg, calls>>
    /\ UNCHANGED configVars

NextReport ==
    \/ CreateIndividualBatches
    \/ CreateSummaryReport
    \/ ProcessFilesInBatches
    \/ LegacySummary

SpecReport == InitReport /\ [][NextReport]_vars

-----------------------------------------------------------------------------
(* Claims about batching and totals, checked under SpecReport *)

\* ceil(n / s)
CeilDiv(n, s) == IF n % s = 0 THEN n \div s ELSE n \div s + 1

\* C14: for every sequence of n items and every batch size s >= 1, batching produces
\* ceil(n/s) chunks, chunk N (1-based) holds exactly the items at the 0-based indices
\* (N-1)*s up to min(N*s, n) exclusive, every chunk is non-empty with at most s items,
\* the chunks concatenated in order are the original sequence, and the reported batch
\* count is the number of chunks; for the batch files of process_batch and for the file
\* batches of the legacy process_files_in_batches.
C14_BatchesPartitionTheSequence ==
    op \in {"create_individual_batches", "process_files_in_batches"} =>
        LET n == Len(arg.items)
            s == arg.batch_size
        IN  /\ Len(out.batches) = CeilDiv(n, s)
            /\ \A N \in DOMAIN out.batches :
                  /\ out.batches[N]
                        = [k \in 1..(Min(N * s, n) - (N - 1) * s) |-> arg.items[(N - 1) * s + k]]
                  /\ Len(out.batches[N]) \in 1..s
            /\ Concat(out.batches) = arg.items
            /\ out.batches_processed = Len(out.batches)

\* C14 witness: three records in batches of two: a full chunk and a last, shorter one
C14_Witness ==
    /\ op = "create_individual_batches"
    /\ Len(arg.items) = 3 /\ arg.batch_size = 2
    /\ Len(out.batches) = 2
    /\ Len(out.batches[1]) = 2 /\ Len(out.batches[2]) = 1

\* the rows of a category in the app's summary sheet / the legacy summary
SummaryTotal(rows, field) == Sum([i \in DOMAIN rows |-> rows[i][field]])

\* C18 (as claimed): the reported total withdrawal and total deposit are the sums of the
\* records' withdrawal and deposit amounts, net is total deposit minus total withdrawal,
\* and the per-category counts and withdrawal/deposit sums add up to the record count and
\* to those totals; for the summary sheet of process_batch and for the legacy
\* calculate_totals / generate_merchant_summary, on amounts in cents.
C18_TotalsAddUp ==
    /\ op = "create_summary_report" =>
          /\ SummaryTotal(out, "Total_Count") = Len(arg.items)
          /\ SummaryTotal(out, "Total_Withdrawal")
                = Sum([k \in DOMAIN arg.items |-> added_amount(arg.items[k].withdrawal)])
          /\ SummaryTotal(out, "Total_Deposit")
                = Sum([k \in DOMAIN arg.items |-> added_amount(arg.items[k].deposit)])
          /\ \A i \in DOMAIN out :
                out[i].Net_Amount = out[i].Total_Deposit - out[i].Total_Withdrawal
    /\ op = "calculate_totals" =>
          LET per_category == [i \in DOMAIN out.merchant_summary |-> out.merchant_summary[i][2]]
          IN  /\ out.totals.total_withdrawal
                    = Sum([k \in DOMAIN arg.items |-> arg.items[k].withdrawal])
              /\ out.totals.total_deposit
                    = Sum([k \in DOMAIN arg.items |-> arg.items[k].deposit])
              /\ out.totals.net_amount
                    = out.totals.total_deposit - out.totals.total_withdrawal
              /\ SummaryTotal(per_category, "count") = Len(arg.items)
              /\ SummaryTotal(per_category, "total_withdrawal") = out.totals.total_withdrawal
              /\ SummaryTotal(per_category, "total_deposit") = out.totals.total_deposit

-----------------------------------------------------------------------------
(* Claims about the merged records of a batch run *)

\* the merged records a batch run over the files would give if each document's records,
\* in their own order, followed those of the documents before it
RECURSIVE MergedInOrder(_, _, _)
MergedInOrder(dir, config, files) ==
    IF files = <<>> THEN <<>>
    ELSE Tagged(Head(files), process_file(dir, config, Head(files)).result)
            \o MergedInOrder(dir, config, Tail(files))

\* the files of a selection whose processing succeeds
Succeeding(dir, config, files) ==
    SelectSeq(files, LAMBDA f : process_file(dir, config, f).result.success)

\* all_transactions at the end of the loop of process_batch over the files
all_transactions_of(dir, config, files) ==
    batch_loop(dir, config, files,
               [processed_files |-> <<>>, all_transactions |-> <<>>, calls |-> <<>>])
        .all_transactions

\* process_batch merges the records of the valid files in selection order, each tagged with
\* its document's source_file and bank name, and the failed documents leave no trace in
\* the merged records
AppMergeInOrder ==
    op = "process_batch" =>
        LET valid == valid_files(data_dir, arg)
            merged == all_transactions_of(data_dir, merchant_config, valid)
        IN  /\ merged = MergedInOrder(data_dir, merchant_config, valid)
            /\ merged = all_transactions_of(data_dir, merchant_config,
                                            Succeeding(data_dir, merchant_config, valid))
            /\ \A i \in DOMAIN merged :
                  /\ merged[i].bank_name \in {OCBC, DBS}
                  /\ \E k \in DOMAIN valid : merged[i].source_file = valid[k]

\* C15 (as claimed): the merged record sequence of a batch run is the concatenation of the
\* per-document record sequences in input submission order, each document's records kept
\* in their own order and tagged with that document's source_file and bank name, and it
\* does not depend on which documents failed; here for the legacy
\* process_files_in_batches.
C15_MergedInSubmissionOrder ==
    op = "process_files_in_batches" =>
        LET merged == out.all_transactions
            succeeded == SelectSeq(arg.items, LAMBDA f : Legacy_process_file(f) # <<>>)
        IN  /\ Len(merged) = Len(Legacy_batch_transactions(arg.items))
            /\ Len(merged) = Len(Legacy_batch_transactions(succeeded))
            /\ \A i \in DOMAIN merged :
                  /\ "source_file" \in DOMAIN merged[i]
                  /\ "bank_name" \in DOMAIN merged[i]
                  /\ \E k \in DOMAIN arg.items :
                        /\ merged[i].source_file = arg.items[k]
                        /\ \E j \in DOMAIN Legacy_process_file(arg.items[k]) :
                              \A x \in DOMAIN Legacy_process_file(arg.items[k])[j] :
                                 merged[i][x] = Legacy_process_file(arg.items[k])[j][x]

\* the legacy batch run does merge in submission order, untagged
LegacyMergeInOrder ==
    op = "process_files_in_batches" =>
        /\ out.all_transactions = Legacy_batch_transactions(arg.items)
        /\ out.all_transactions
              = Legacy_batch_transactions(
                    SelectSeq(arg.items, LAMBDA f : Legacy_process_file(f) # <<>>))

-----------------------------------------------------------------------------
(* The look-ahead specification: texts long enough for an anchor, the lines its
   look-ahead reads, and the next anchor *)

MaxTextLines == 4    \* lines of a document text drawn in InitLines
MaxFill == 4         \* lines between two anchors drawn in InitLines
MaxMarkedLines == 3  \* lines of a text with blank lines and balance lines

FragileAnchor == Date \o <<SP, "580", ".00", "X", SP, "MISC">>
EmbeddedAnchor == <<"SGD", SP, "580">> \o Date \o <<SP, "540", ".14">>
OCBCAnchor ==
    <<"02", SP, "JUN", SP, SP>> \o Phrase(<<"FAST", "TRANSFER", "OTHR">>) \o <<SP, SP, "580", ".00">>

AnchorLines == {FragileAnchor, EmbeddedAnchor, OCBCAnchor}

\* a DBS anchor whose amount float() rejects, a DBS anchor with an embedded date, an OCBC
\* anchor, two description lines and a line of three characters
AnchoredPool ==
    { FragileAnchor, EmbeddedAnchor, OCBCAnchor,
      Phrase(<<"TRANSFER", "REF">>), Phrase(<<"HERO", "FOODPANDA">>), <<"REF">> }

\* text.split('\n') of every text of 1 to n lines of the pool
RECURSIVE AnchoredTextsUpTo(_)
AnchoredTextsUpTo(n) ==
    IF n = 1 THEN {<<l>> : l \in AnchoredPool}
    ELSE AnchoredTextsUpTo(n - 1)
            \cup {Append(t, l) : t \in {u \in AnchoredTextsUpTo(n - 1) : Len(u) = n - 1},
                                 l \in AnchoredPool}

\* an anchor, n lines that are not anchors, and an anchor
RECURSIVE Filled(_)
Filled(n) ==
    IF n = 0 THEN {<<a>> : a \in AnchorLines}
    ELSE {Append(t, l) : t \in Filled(n - 1), l \in AnchoredPool \ AnchorLines}

\* the two anchors, a blank line, the balance lines the processors' skip patterns name,
\* and a description line
MarkerPool ==
    { EmbeddedAnchor, OCBCAnchor, <<>>, BalanceBroughtForward, Phrase(<<"BALANCE", "B/F">>),
      Phrase(<<"TRANSFER", "REF">>) }

\* text.split('\n') of every text of 1 to n lines of the marker pool
RECURSIVE MarkedTextsUpTo(_)
MarkedTextsUpTo(n) ==
    IF n = 1 THEN {<<l>> : l \in MarkerPool}
    ELSE MarkedTextsUpTo(n - 1)
            \cup {Append(t, l) : t \in {u \in MarkedTextsUpTo(n - 1) : Len(u) = n - 1},
                                 l \in MarkerPool}

InitLines ==
    /\ text \in AnchoredTextsUpTo(MaxTextLines)
                \cup MarkedTextsUpTo(MaxMarkedLines)
                \cup {Append(t, a) : t \in UNION {Filled(n) : n \in 0..MaxFill},
                                     a \in AnchorLines}
    /\ merchant_config = TextTaxonomy
    /\ description = <<>>
    /\ amount = <<>>
    /\ data_dir = NoDirectory
    /\ op = "init"
    /\ arg = <<>>
    /\ calls = <<>>
    /\ out = <<>>
    /\ self = Multi
    /\ config_file = Persisted(merchant_config)
    /\ writer = NoWriter

NextLines ==
    \/ ExtractDBS
    \/ ExtractOCBC

SpecLines == InitLines /\ [][NextLines]_vars

-----------------------------------------------------------------------------
(* Claims about the look-ahead, checked under SpecLines *)

\* the text without its line i
WithoutLine(lines, i) == SubSeq(lines, 1, i - 1) \o SubSeq(lines, i + 1, Len(lines))

\* the processor whose extract_transactions has returned
Extracting ==
    IF op = "dbs_extract_transactions" THEN DBS
    ELSE IF op = "ocbc_extract_transactions" THEN OCBC ELSE None

\* the line is an anchor line of the processor
IsAnchorLine(processor, line) ==
    IF processor = DBS THEN DBS_is_transaction_line(line) ELSE OCBC_is_transaction_line(line)

\* line i of the text is an anchor line of the processor
IsAnchor(processor, lines, i) == IsAnchorLine(processor, lines[i])

\* C16 (as claimed): adding lines that are not anchor lines anywhere in a document never
\* reduces the number of records: the text of the state, seen as a text T with one
\* non-anchor line inserted, yields at least as many records as T does.
C16_InsertionNeverLosesRecords ==
    Extracting # None =>
        \A i \in DOMAIN text :
            ~IsAnchor(Extracting, text, i) =>
                Len(extract_transactions(Extracting, merchant_config, WithoutLine(text, i)))
                    <= Len(out)

\* the try block of the processor's extract_transactions for the anchor at line i
ProcessLine(processor, config, lines, i) ==
    IF processor = DBS THEN DBS_process_line(config, lines, i)
    ELSE OCBC_process_line(config, lines, i)

\* the description the line parser gives the anchor at line i, before the look-ahead
OwnDescription(processor, lines, i) ==
    IF processor = DBS
    THEN DBS_parse_dbs_transaction_line(strip(lines[i])).transaction_details
    ELSE IF Len(re_split_gaps(strip(lines[i]))) >= 3
    THEN OCBC_parse_parts(re_split_gaps(strip(lines[i]))).description
    ELSE <<>>

\* the description of a record
DescriptionOf(processor, record) ==
    IF processor = DBS THEN record.transaction_details ELSE record.description

\* the lines the look-ahead of the anchor at line i absorbed, after the anchor's own
\* description
Absorbed(processor, lines, i) ==
    Tail(IF processor = DBS
         THEN DBS_continuation(lines, i + 1, Min(i + LookAhead, Len(lines)), << <<>> >>)
         ELSE OCBC_continuation(lines, i + 1, Min(i + LookAhead, Len(lines)), << <<>> >>))

\* header, footer and balance-brought-forward boilerplate
IsStopMarker(line) == Contains(upper(line), upper(BalanceBroughtForward))

\* lines i and i + k + 1 are anchors and the k lines between them are stripped non-blank
AnchorToAnchor(processor, lines, i, k) ==
    /\ i + k + 1 <= Len(lines)
    /\ IsAnchor(processor, lines, i) /\ IsAnchor(processor, lines, i + k + 1)
    /\ \A j \in (i + 1)..(i + k) : strip(lines[j]) # <<>>

\* the first anchor's record has its own description and the k lines, joined by single
\* spaces; the second anchor's record, when it parses, is a record of its own after it
JoinedAndSeparate(processor, config, lines, i, k, records) ==
    /\ ProcessLine(processor, config, lines, i).ok =>
          /\ DescriptionOf(processor, ProcessLine(processor, config, lines, i).value)
                = strip(join(<<OwnDescription(processor, lines, i)>>
                                \o [j \in 1..k |-> strip(lines[i + j])], <<SP>>))
          /\ \E m \in DOMAIN records :
                records[m] = ProcessLine(processor, config, lines, i).value
    /\ ProcessLine(processor, config, lines, i + k + 1).ok =>
          /\ \E m \in DOMAIN records :
                records[m] = ProcessLine(processor, config, lines, i + k + 1).value
          /\ OwnDescription(processor, lines, i + k + 1) # <<>> =>
                SubSeq(DescriptionOf(processor,
                                     ProcessLine(processor, config, lines, i + k + 1).value),
                       1, Len(OwnDescription(processor, lines, i + k + 1)))
                    = OwnDescription(processor, lines, i + k + 1)

\* C19 (as claimed): when an anchor line is followed by k <= 4 consecutive non-blank lines
\* that are neither anchors nor stop markers and then by a new anchor, the first record's
\* description is the anchor's own description followed by all k lines in source order
\* joined by single spaces, and the second anchor yields its own separate record.
C19_AbsorbsAllNonAnchorLines ==
    Extracting # None =>
        \A i \in DOMAIN text, k \in 0..LookAhead :
            /\ AnchorToAnchor(Extracting, text, i, k)
            /\ \A j \in (i + 1)..(i + k) :
                  ~IsAnchor(Extracting, text, j) /\ ~IsStopMarker(text[j])
            => JoinedAndSeparate(Extracting, merchant_config, text, i, k, out)

\* C20 (as claimed): no line that matches an anchor pattern of the active format is
\* absorbed into the description of a preceding record, the DBS anchors with an embedded
\* date included.
C20_AnchorsAreNeverAbsorbed ==
    Extracting # None =>
        \A i \in DOMAIN text :
            IsAnchor(Extracting, text, i) /\ ProcessLine(Extracting, merchant_config, text, i).ok =>
                \A p \in DOMAIN Absorbed(Extracting, text, i) :
                    ~IsAnchorLine(Extracting, Absorbed(Extracting, text, i)[p])

\* two anchors with an embedded date: both yield a record, and the first record's
\* description ends with the second anchor's line
EmbeddedAnchorAbsorbed ==
    /\ op = "dbs_extract_transactions"
    /\ text = <<EmbeddedAnchor, EmbeddedAnchor>>
    /\ Len(out) = 2
    /\ out[1].transaction_details = OwnDescription(DBS, text, 1) \o <<SP>> \o EmbeddedAnchor

-----------------------------------------------------------------------------
(* The interleaving specification: a GET /api/merchants request handled by one thread
   of the server while a POST /api/merchants request is handled by another. The file is
   opened with open(..., 'w'), which truncates it at once; what is written reaches the
   file when the buffer is flushed, at the latest when the with block closes the file.
   Nothing orders the reader's two loads with the writer's steps. *)

InitRace ==
    /\ config_file \in ConfigFilePool
    /\ arg = [before |-> config_file, after |-> config_file]
    /\ writer = NoWriter
    /\ self = Multi
    /\ merchant_config = <<>>
    /\ text = NoText
    /\ description = <<>>
    /\ amount = <<>>
    /\ data_dir = NoDirectory
    /\ op = "init"
    /\ calls = <<>>
    /\ out = <<>>

\* update_merchants: update_merchant_config(merchants) opens the file for writing
OpenForWrite ==
    /\ writer.pc = "idle"
    /\ \E merchants \in MerchantsPool :
          /\ writer' = [pc |-> "writing", buffer |-> written_lines(merchants)]
          /\ arg' = [before |-> config_file, after |-> ConfigFile(written_lines(merchants))]
    /\ config_file' = ConfigFile(<<>>)
    /\ UNCHANGED <<description, amount, merchant_config, text, data_dir, op, calls, out, self>>

\* the buffer of the open file is flushed up to some line
Flush ==
    /\ writer.pc = "writing"
    /\ \E n \in 1..Len(writer.buffer) :
          /\ config_file' = ConfigFile(config_file.lines \o SubSeq(writer.buffer, 1, n))
          /\ writer' = [writer EXCEPT !.buffer = SubSeq(writer.buffer, n + 1, Len(writer.buffer))]
    /\ UNCHANGED <<description, amount, merchant_config, text, data_dir, op, arg, calls, out,
                   self>>

\* the with block ends: the rest of the buffer is written and the file is closed
Close ==
    /\ writer.pc = "writing"
    /\ config_file' = ConfigFile(config_file.lines \o writer.buffer)
    /\ writer' = [pc |-> "closed", buffer |-> <<>>]
    /\ UNCHANGED <<description, amount, merchant_config, text, data_dir, op, arg, calls, out,
                   self>>

\* get_merchants: processor = MultiFormatProcessor(), whose __init__ loads the file
GetMerchantsConstruct ==
    /\ op = "init"
    /\ merchant_config' = construct(Multi, config_file)
    /\ op' = "__init__"
    /\ UNCHANGED <<description, amount, text, data_dir, arg, calls, out, self, config_file,
                   writer>>

\* get_merchants: processor.load_merchant_config(), then the taxonomy is returned
GetMerchantsLoad ==
    /\ op = "__init__"
    /\ merchant_config' = load_merchant_config(Multi, merchant_config, config_file)
    /\ out' = merchant_config'
    /\ op' = "get_merchants"
    /\ UNCHANGED <<description, amount, text, data_dir, arg, calls, self, config_file, writer>>

NextRace ==
    \/ OpenForWrite
    \/ Flush
    \/ Close
    \/ GetMerchantsConstruct
    \/ GetMerchantsLoad

SpecRace == InitRace /\ [][NextRace]_vars

\* C17 (as claimed): a taxonomy load that interleaves with a taxonomy mutation observes
\* either the complete taxonomy before the mutation or the complete taxonomy after it,
\* never an empty or partially written one.
C17_LoadSeesConsistentSnapshot ==
    op = "get_merchants" =>
        \/ out = load_merchant_config(Multi, <<>>, arg.before)
        \/ out = load_merchant_config(Multi, <<>>, arg.after)

\* a load between the truncation and the close returns the empty taxonomy although the
\* taxonomy is empty neither before nor after the mutation
EmptyTaxonomyObserved ==
    /\ op = "get_merchants"
    /\ writer.pc = "writing"
    /\ out = <<>>
    /\ load_merchant_config(Multi, <<>>, arg.before) # <<>>
    /\ load_merchant_config(Multi, <<>>, arg.after) # <<>>

-----------------------------------------------------------------------------
(* Claims about the look-ahead window, checked under SpecLines *)

\* the stripped non-blank lines among the n lines that follow line i, cut at the end of
\* the text
FollowingLines(lines, i, n) ==
    SelectSeq([j \in 1..(Min(i + n, Len(lines)) - i) |-> strip(lines[i + j])],
              LAMBDA l : l # <<>>)

\* the description of the anchor at line i is its own description and the first m of the
\* following lines given
DescribedBy(processor, config, lines, i, following, m) ==
    DescriptionOf(processor, ProcessLine(processor, config, lines, i).value)
        = strip(join(<<OwnDescription(processor, lines, i)>> \o SubSeq(following, 1, m), <<SP>>))

\* C21: stitching looks at no more than the 4 lines immediately following the anchor
\* line: the description of every record is the anchor's own description followed by
\* lines taken from the 4 lines after the anchor, so a line 5 or more positions after the
\* anchor is never absorbed, and at the end of the text the window is cut at the last
\* line: an anchor with fewer than 4 lines after it is processed all the same.
C21_WindowOfFourLines ==
    Extracting # None =>
        \A i \in DOMAIN text :
            /\ IsAnchor(Extracting, text, i)
            /\ ProcessLine(Extracting, merchant_config, text, i).ok
            => /\ \E m \in 0..Len(FollowingLines(text, i, 4)) :
                     DescribedBy(Extracting, merchant_config, text, i,
                                 FollowingLines(text, i, 4), m)
               /\ \E r \in DOMAIN out :
                     out[r] = ProcessLine(Extracting, merchant_config, text, i).value

\* C21 witness: a DBS anchor, four description lines and a fifth line the look-ahead would
\* take (an anchor with an embedded date): the first record holds the four lines and not
\* the fifth, and the last anchor, at the end of the text, has its record
C21_Witness ==
    /\ op = "dbs_extract_transactions"
    /\ Len(text) = 6
    /\ text[1] = EmbeddedAnchor /\ text[6] = EmbeddedAnchor
    /\ \A j \in 2..5 : text[j] = Phrase(<<"TRANSFER", "REF">>)
    /\ Len(out) = 2
    /\ DescribedBy(DBS, merchant_config, text, 1, FollowingLines(text, 1, 4), 4)
    /\ ~Contains(out[1].transaction_details, EmbeddedAnchor)
    /\ out[2].transaction_details = OwnDescription(DBS, text, 6)

\* the line is one of the continuation-stop markers of the processor
IsMarker(processor, line) ==
    IF processor = DBS THEN DBS_skip_patterns(strip(line)) ELSE OCBC_skip_patterns(strip(line))

\* the line ends stitching: it is empty, an anchor or a stop marker
EndsStitching(processor, line) ==
    \/ strip(line) = <<>>
    \/ IsAnchorLine(processor, line)
    \/ IsMarker(processor, line)

\* the number of lines right after line i, within the window, before the first line
\* that ends stitching
RECURSIVE StitchedUpTo(_, _, _, _)
StitchedUpTo(processor, lines, i, n) ==
    IF n >= LookAhead \/ i + n + 1 > Len(lines) \/ EndsStitching(processor, lines[i + n + 1])
    THEN n
    ELSE StitchedUpTo(processor, lines, i, n + 1)

\* C22 (as claimed): within the look-ahead window, stitching ends at the first line that
\* is empty, matches an anchor pattern or is a stop marker: the description of a record is
\* the anchor's own description followed only by lines located before the first such
\* line, so no line after a blank line is absorbed.
C22_StitchingEndsAtFirstStop ==
    Extracting # None =>
        \A i \in DOMAIN text :
            /\ IsAnchor(Extracting, text, i)
            /\ ProcessLine(Extracting, merchant_config, text, i).ok
            => \E m \in 0..StitchedUpTo(Extracting, text, i, 0) :
                  DescribedBy(Extracting, merchant_config, text, i,
                              [j \in 1..StitchedUpTo(Extracting, text, i, 0) |->
                                    strip(text[i + j])], m)

\* an anchor, a blank line and a description line: the record's description holds the
\* line after the blank line
AbsorbedAcrossBlankLine ==
    /\ Extracting # None
    /\ text = <<IF Extracting = DBS THEN EmbeddedAnchor ELSE OCBCAnchor, <<>>,
                Phrase(<<"TRANSFER", "REF">>)>>
    /\ Len(out) = 1
    /\ DescriptionOf(Extracting, out[1])
          = strip(OwnDescription(Extracting, text, 1) \o <<SP>> \o Phrase(<<"TRANSFER", "REF">>))

\* C23 (as claimed): continuation-stop markers are never absorbed into any record's
\* description by extract_transactions: no line the look-ahead of an anchor absorbed is a
\* stop marker of the processor.
C23_StopMarkersNeverAbsorbed ==
    Extracting # None =>
        \A i \in DOMAIN text :
            /\ IsAnchor(Extracting, text, i)
            /\ ProcessLine(Extracting, merchant_config, text, i).ok
            => \A p \in DOMAIN Absorbed(Extracting, text, i) :
                  ~IsMarker(Extracting, Absorbed(Extracting, text, i)[p])

\* an anchor followed by the balance line: the record's description ends with the marker
StopMarkerAbsorbed ==
    /\ op = "dbs_extract_transactions"
    /\ text = <<EmbeddedAnchor, BalanceBroughtForward>>
    /\ Len(out) = 1
    /\ out[1].transaction_details
          = OwnDescription(DBS, text, 1) \o <<SP>> \o BalanceBroughtForward

-----------------------------------------------------------------------------
(* Claims about the amounts and the direction of the records, checked under SpecLines *)

\* C24 (as claimed): an anchor line whose amount token is not a valid decimal yields no
\* record: no record returned by extract_transactions has a withdrawal or deposit field
\* holding a token that float() rejects once the group separators are removed.
C24_AmountFieldsParse ==
    Extracting # None =>
        \A r \in DOMAIN out :
            /\ out[r].withdrawal # <<>> => FloatParses(out[r].withdrawal)
            /\ out[r].deposit # <<>> => FloatParses(out[r].deposit)

\* the DBS anchor with the amount token 580.00X, followed by a line with a deposit
\* keyword, yields a record whose deposit field holds the token
UnparsedAmountReturned ==
    /\ op = "dbs_extract_transactions"
    /\ text = <<FragileAnchor, Phrase(<<"TRANSFER", "REF">>)>>
    /\ Len(out) = 1
    /\ out[1].withdrawal = <<"580", ".00", "X">>

\* the field the keyword policy of the processor selects for a description: the deposit
\* list is tested first, and withdrawal is the default
PolicyField(processor, full_description) ==
    IF processor = DBS
    THEN IF AnyKeywordIn(DBS_deposit_keywords, upper(full_description))
         THEN "deposit" ELSE "withdrawal"
    ELSE IF AnyKeywordIn(OCBC_deposit_keywords, upper(full_description))
         THEN "deposit" ELSE "withdrawal"

\* C25 (as claimed): the direction decision of every record is taken on the full stitched
\* description: the field (deposit or withdrawal) that holds the amount is the one the
\* keyword policy selects for the anchor description together with all absorbed
\* continuation lines.
C25_DirectionFromFullDescription ==
    Extracting # None =>
        \A r \in DOMAIN out :
            out[r].withdrawal # <<>> \/ out[r].deposit # <<>> =>
                out[r][PolicyField(Extracting, DescriptionOf(Extracting, out[r]))] # <<>>

\* a DBS anchor without keyword followed by a line with a deposit keyword: the amount
\* stays in the withdrawal field, where the parse of the anchor line alone put it
AmountFieldFromAnchorAlone ==
    /\ op = "dbs_extract_transactions"
    /\ text = <<EmbeddedAnchor, Phrase(<<"TRANSFER", "REF">>)>>
    /\ Len(out) = 1
    /\ out[1].withdrawal = <<"580">> /\ out[1].deposit = <<>>
    /\ PolicyField(DBS, out[1].transaction_details) = "deposit"

\* C27 (as claimed): in every record returned by DBSBankProcessor.extract_transactions,
\* transaction_type is 'Deposit' exactly when the deposit field is populated and
\* 'Withdrawal' exactly when the withdrawal field is populated.
C27_TypeAgreesWithAmountField ==
    op = "dbs_extract_transactions" =>
        \A r \in DOMAIN out :
            /\ out[r].transaction_type = "Deposit" <=> out[r].deposit # <<>>
            /\ out[r].transaction_type = "Withdrawal" <=> out[r].withdrawal # <<>>

\* the same record has transaction_type Deposit and its amount in the withdrawal field
TypeDisagreesWithAmountField ==
    /\ op = "dbs_extract_transactions"
    /\ text = <<EmbeddedAnchor, Phrase(<<"TRANSFER", "REF">>)>>
    /\ Len(out) = 1
    /\ out[1].transaction_type = "Deposit"
    /\ out[1].withdrawal # <<>> /\ out[1].deposit = <<>>

-----------------------------------------------------------------------------
(* Claims about the DBS line parser, checked under SpecText *)

RemittanceLine ==
    Date \o <<SP, "580", ".00", SP>> \o Phrase(<<"REMITTANCE", "TRANSFER", "OF", "FUNDS", "RTF">>)

\* the whitespace-separated columns of line i
Columns(lines, i) == split(strip(lines[i]))

\* C26: a DBS line is parsed by the first shape it matches, date-first before amount-first
\* before embedded-date: a date-first line 'DATE AMOUNT DESCRIPTION' whose record is
\* returned has transaction_date = DATE, value_date = DATE, AMOUNT in one amount field and
\* the other field empty, and a description that starts with DESCRIPTION; the line
\* '01-Sep-22 580.00 REMITTANCE TRANSFER OF FUNDS RTF' gives date 01-Sep-22, amount 580.00
\* in the deposit field and direction Deposit.
C26_DateFirstLineParsedAsDateFirst ==
    op = "dbs_extract_transactions" =>
        \A i \in DOMAIN text :
            /\ DBS_format1(strip(text[i])) /\ Len(Columns(text, i)) >= 3
            /\ DBS_process_line(merchant_config, text, i).ok
            => /\ \E r \in DOMAIN out :
                     /\ out[r] = DBS_process_line(merchant_config, text, i).value
                     /\ out[r].transaction_date = Columns(text, i)[1]
                     /\ out[r].value_date = Columns(text, i)[1]
                     /\ <<out[r].withdrawal, out[r].deposit>>
                            \in {<<Columns(text, i)[2], <<>>>>, <<<<>>, Columns(text, i)[2]>>}
                     /\ SubSeq(out[r].transaction_details, 1,
                               Len(join(SubSeq(Columns(text, i), 3, Len(Columns(text, i))),
                                        <<SP>>)))
                            = join(SubSeq(Columns(text, i), 3, Len(Columns(text, i))), <<SP>>)
               /\ text[i] = RemittanceLine =>
                     \E r \in DOMAIN out :
                        /\ out[r].transaction_date = Date
                        /\ out[r].deposit = <<"580", ".00">> /\ out[r].withdrawal = <<>>
                        /\ out[r].transaction_type = "Deposit"

\* C26 witness: the remittance line alone yields the record of the scenario
C26_Witness ==
    /\ op = "dbs_extract_transactions"
    /\ text = <<RemittanceLine>>
    /\ DBS_format1(text[1]) /\ DBS_format3(text[1])
    /\ Len(out) = 1
    /\ out[1].transaction_date = Date /\ out[1].value_date = Date
    /\ out[1].deposit = <<"580", ".00">> /\ out[1].withdrawal = <<>>
    /\ out[1].transaction_type = "Deposit"
    /\ out[1].transaction_details = Phrase(<<"REMITTANCE", "TRANSFER", "OF", "FUNDS", "RTF">>)

-----------------------------------------------------------------------------
(* The dispatch specification: one MultiFormatProcessor whose taxonomy is changed and
   which then processes a file. The dispatcher and each registered processor hold a
   merchant_config dict of their own, each loaded from the file by its constructor;
   arg.registered is the dict of the registered processors. *)

Payments == <<"Payments">>

\* the taxonomy as the classifier reads it: category names as atoms
AsTaxonomy(config) == [i \in DOMAIN config |-> <<config[i][1][1], config[i][2]>>]

DispatchDir == [exists |-> TRUE, files |-> << <<"ocbc", ".pdf">>, <<"DBS", ".PDF">> >>]

DispatchFilePool ==
    {NoConfigFile, Persisted(TextTaxonomy), Persisted(DefaultTaxonomy), Persisted(<<>>)}

DispatchMerchantsPool ==
    { << <<Payments, << <<"payment">> >> >> >>,
      << <<Hero, HeroKeywords>>, <<Payments, << <<"misc">>, <<"transfer">> >> >> >> }

InitDispatch ==
    /\ config_file \in DispatchFilePool
    /\ self = Multi
    /\ merchant_config = construct(Multi, config_file)
    /\ arg = [registered |-> construct(DBS, config_file), mutated |-> FALSE,
              filename |-> <<>>]
    /\ data_dir = DispatchDir
    /\ writer = NoWriter
    /\ text = NoText
    /\ description = <<>>
    /\ amount = <<>>
    /\ op = "__init__"
    /\ calls = <<>>
    /\ out = <<>>

\* a taxonomy operation of the dispatcher returns: its own dict and the file change, the
\* dicts of the registered processors are not touched
Mutated(stored, name) ==
    /\ Persist(stored)
    /\ arg' = [arg EXCEPT !.mutated = stored.returned]
    /\ op' = name
    /\ UNCHANGED <<description, amount, text, data_dir, calls, self, writer>>

DispatcherUpdate ==
    /\ op = "__init__"
    /\ \E merchants \in DispatchMerchantsPool, writable \in BOOLEAN :
          Mutated(update_merchant_config(Multi, merchant_config, config_file, merchants,
                                         writable),
                  "update_merchant_config")

DispatcherAdd ==
    /\ op = "__init__"
    /\ \E keywords \in { <<"payment">>, <<"misc", ",", SP, "transfer">> },
          writable \in BOOLEAN :
          Mutated(add_merchant_category(Multi, merchant_config, config_file, Payments,
                                        keywords, writable),
                  "add_merchant_category")

DispatcherDelete ==
    /\ op = "__init__"
    /\ \E category \in {Hero, Amazon, Payments}, writable \in BOOLEAN :
          Mutated(delete_merchant_category(Multi, merchant_config, config_file, category,
                                           writable),
                  "delete_merchant_category")

\* process_file of the dispatcher: the registered processor that detects the format
\* extracts and categorizes with its own dict
DispatchFile ==
    /\ op # "process_file"
    /\ \E filename \in {DispatchDir.files[k] : k \in DOMAIN DispatchDir.files} :
          /\ Returned(process_file(data_dir, AsTaxonomy(arg.registered), filename))
          /\ text' = PdfText(filename).lines
          /\ arg' = [arg EXCEPT !.filename = filename]
    /\ op' = "process_file"
    /\ UNCHANGED <<description, amount, merchant_config, data_dir, self, config_file,
                   writer>>

NextDispatch ==
    \/ DispatcherUpdate
    \/ DispatcherAdd
    \/ DispatcherDelete
    \/ DispatchFile

SpecDispatch == InitDispatch /\ [][NextDispatch]_vars

\* the categories of the records of a result
CategoriesOf(result) ==
    IF result.success
    THEN [k \in DOMAIN result.transactions |-> result.transactions[k].merchant_category]
    ELSE <<>>

\* C28 (as claimed): after add_merchant_category, update_merchant_config or
\* delete_merchant_category of a MultiFormatProcessor succeeds, every later categorization
\* performed through that processor uses the updated taxonomy: the records process_file
\* returns have the categories the dispatcher's current taxonomy gives them.
C28_DispatchUsesUpdatedTaxonomy ==
    op = "process_file" /\ arg.mutated =>
        CategoriesOf(out)
            = CategoriesOf(process_file(data_dir, AsTaxonomy(merchant_config),
                                        arg.filename).result)

\* after a successful mutation the dispatcher's taxonomy gives a record the category
\* Payments, and process_file returns it with the category Other
StaleTaxonomyUsed ==
    /\ op = "process_file" /\ arg.mutated
    /\ out.success
    /\ \E k \in DOMAIN out.transactions :
          /\ out.transactions[k].merchant_category = "Other"
          /\ CategoriesOf(process_file(data_dir, AsTaxonomy(merchant_config),
                                       arg.filename).result)[k] = "Payments"

-----------------------------------------------------------------------------
(* The workbook specification: the legacy processor runs process_files_in_batches and
   saves one workbook per batch and one consolidated workbook *)

\* legacy process_file reaches extract_transactions: the document exists, can be read and
\* has text
Legacy_has_text(filename) ==
    PdfText(filename).readable /\ PdfText(filename).lines # NoText

\* self.transactions after process_file(filename): extract_transactions stores the list it
\* returns, a document that does not reach it leaves the attribute as it was
Legacy_stored_after(stored, filename) ==
    IF Legacy_has_text(filename) THEN Legacy_process_file(filename) ELSE stored

\* self.transactions after the files were processed in turn
RECURSIVE Legacy_stored(_, _)
Legacy_stored(stored, files) ==
    IF files = <<>> THEN stored
    ELSE Legacy_stored(Legacy_stored_after(stored, Head(files)), Tail(files))

\* legacy save_to_excel(transactions, output_path, output_type) of a processor whose
\* self.transactions is stored: the sheet of the list passed in, and the two summary sheets
\* from generate_merchant_summary() and calculate_totals(), which read self.transactions
save_to_excel(stored, transactions, output_path) ==
    [output_path |-> output_path,
     All_Transactions |-> transactions,
     Merchant_Summary |-> generate_merchant_summary(<<>>, stored),
     Overall_Summary |-> calculate_totals(stored)]

\* the files processed when batch b has been processed
Legacy_files_through(files, batch_size, b) ==
    SubSeq(files, 1, IF b * batch_size < Len(files) THEN b * batch_size ELSE Len(files))

\* legacy process_files_in_batches: the workbooks saved, one for each batch with a
\* transaction and then the consolidated one when there is a transaction at all
Legacy_workbooks(files, batch_size) ==
    LET run == process_files_in_batches(files, batch_size)
        batch == [b \in 1..run.batches_processed |->
                    save_to_excel(
                        Legacy_stored(<<>>, Legacy_files_through(files, batch_size, b)),
                        Legacy_batch_transactions(run.batches[b]),
                        <<"Batch", b, run.batches_processed>>)]
    IN  SelectSeq(batch, LAMBDA w : w.All_Transactions # <<>>)
            \o IF run.all_transactions = <<>> THEN <<>>
               ELSE << save_to_excel(Legacy_stored(<<>>, files), run.all_transactions,
                                     <<"All_Files_Combined">>) >>

InitWorkbooks ==
    /\ arg \in [files : SeqsUpTo(DocNames, MaxRecords) \ {<<>>}, batch_size : 1..MaxBatchSize]
    /\ merchant_config = <<>>
    /\ text = NoText
    /\ description = <<>>
    /\ amount = <<>>
    /\ data_dir = NoDirectory
    /\ op = "init"
    /\ calls = <<>>
    /\ out = <<>>
    /\ self = OCBC
    /\ config_file = NoConfigFile
    /\ writer = NoWriter

SaveBatchWorkbooks ==
    /\ op = "init"
    /\ op' = "process_files_in_batches"
    /\ out' = Legacy_workbooks(arg.files, arg.batch_size)
    /\ UNCHANGED <<description, amount, merchant_config, text, data_dir, arg, calls>>
    /\ UNCHANGED configVars

NextWorkbooks == SaveBatchWorkbooks

SpecWorkbooks == InitWorkbooks /\ [][NextWorkbooks]_vars

\* C30 (as claimed): the totals and the merchant summary that save_to_excel writes next to
\* a transaction list cover exactly the transactions passed to it: in every batch and
\* consolidated workbook total_transactions is the number of transactions of that
\* workbook, and both summaries are those of its transaction list.
C30_SummariesCoverTheWorkbook ==
    op = "process_files_in_batches" =>
        \A k \in DOMAIN out :
            /\ out[k].Overall_Summary = calculate_totals(out[k].All_Transactions)
            /\ out[k].Overall_Summary.total_transactions = Len(out[k].All_Transactions)
            /\ out[k].Merchant_Summary
                 = generate_merchant_summary(<<>>, out[k].All_Transactions)

\* a consolidated workbook of three transactions whose total_transactions is the one
\* transaction of the last file processed
TotalsOfLastFile ==
    /\ op = "process_files_in_batches"
    /\ \E k \in DOMAIN out :
          /\ out[k].output_path = <<"All_Files_Combined">>
          /\ Len(out[k].All_Transactions) = 3
          /\ out[k].Overall_Summary.total_transactions = 1

-----------------------------------------------------------------------------
(* The add specification: two requests to /api/merchants/add run in two threads of the
   server. Each constructs a MultiFormatProcessor of its own, which loads the file, and
   then calls add_merchant_category, which sets the category in the processor's dict and
   rewrites the whole file from it. arg[r] is request r: its position, its input and the
   dict of its processor. The rewrite of the file is taken as one step. *)

Requests == 1..2

AddCategoryPool == {Payments, Hero, Amazon}

AddKeywordsPool == { <<"payment">>, <<"hero", ",", SP, "foodpanda">> }

InitAdd ==
    /\ config_file \in DispatchFilePool
    /\ \E categories \in [Requests -> AddCategoryPool], keywords \in AddKeywordsPool :
          /\ categories[1] # categories[2]
          /\ arg = [r \in Requests |->
                        [pc |-> "request", category |-> categories[r], keywords |-> keywords,
                         merchant_config |-> <<>>, success |-> FALSE]]
    /\ merchant_config = <<>>
    /\ self = Multi
    /\ writer = NoWriter
    /\ text = NoText
    /\ description = <<>>
    /\ amount = <<>>
    /\ data_dir = NoDirectory
    /\ op = "add_merchant"
    /\ calls = <<>>
    /\ out = <<>>

\* processor = MultiFormatProcessor()
AddMerchantConstruct ==
    /\ \E r \in Requests :
          /\ arg[r].pc = "request"
          /\ arg' = [arg EXCEPT ![r].pc = "constructed",
                                ![r].merchant_config = construct(Multi, config_file)]
    /\ UNCHANGED <<description, amount, merchant_config, text, data_dir, op, calls, out>>
    /\ UNCHANGED configVars

\* success = processor.add_merchant_category(category, keywords), and the response
AddMerchantSave ==
    /\ \E r \in Requests, writable \in BOOLEAN :
          LET stored == add_merchant_category(Multi, arg[r].merchant_config, config_file,
                                              arg[r].category, arg[r].keywords, writable)
          IN  /\ arg[r].pc = "constructed"
              /\ arg' = [arg EXCEPT ![r].pc = "returned",
                                    ![r].merchant_config = stored.config,
                                    ![r].success = stored.returned]
              /\ config_file' = stored.file
              /\ out' = Append(out, <<r, stored.returned>>)
    /\ UNCHANGED <<description, amount, merchant_config, text, data_dir, op, calls, self,
                   writer>>

NextAdd ==
    \/ AddMerchantConstruct
    \/ AddMerchantSave

SpecAdd == InitAdd /\ [][NextAdd]_vars

\* both requests have returned success
BothAdded == \A r \in Requests : arg[r].pc = "returned" /\ arg[r].success

\* C29 (as claimed): two concurrent add-category requests for distinct categories never
\* lose an update: once both have returned success, the persisted taxonomy, as a new
\* processor loads it, contains both categories, under every interleaving.
C29_NoAddIsLost ==
    BothAdded =>
        \A r \in Requests : HasKey(construct(Multi, config_file), arg[r].category)

\* both requests returned success and the category of the first to return is not in the
\* persisted taxonomy
AddLost ==
    /\ BothAdded
    /\ ~HasKey(construct(Multi, config_file), arg[out[1][1]].category)
    /\ HasKey(construct(Multi, config_file), arg[out[2][1]].category)

====
